---- MODULE Spec2Model ----
(***************************************************************************)
(* A model of the mainframe migration core: the PIC clause analyzer        *)
(* (mf_spark/converters/vsam_types.py), the copybook layout builder        *)
(* (mf_spark/parsers/copybook_parser.py) and the packed / zoned decimal    *)
(* codecs (mf_spark/utils/encoding.py).                                    *)
(*                                                                         *)
(* Strings are sequences of one-character strings, so that the regular     *)
(* expressions of the source are modelled by what they consume.  A value   *)
(* the source binds to a local name is passed on as an operator parameter. *)
(***************************************************************************)
EXTENDS Integers, Sequences, FiniteSets, TLC

\* ------------------------------------------------------------------ bounds
\* Largest digit count written in a picture (integer part).
MaxIntDigits == 18
\* Largest number of fraction positions written after V.
MaxFracDigits == 2
\* Largest number of statements in a copybook.
MaxStmts == 5

\* ------------------------------------------------------- string utilities
None == "None"

DigitChars == <<"0", "1", "2", "3", "4", "5", "6", "7", "8", "9">>

DigitSet == {"0", "1", "2", "3", "4", "5", "6", "7", "8", "9"}

DigitVal(c) == CHOOSE d \in 0..9 : DigitChars[d + 1] = c

\* str(n) for a natural number n.
RECURSIVE StrOfNat(_)
StrOfNat(n) ==
    IF n < 10 THEN <<DigitChars[n + 1]>>
    ELSE StrOfNat(n \div 10) \o <<DigitChars[(n % 10) + 1]>>

\* int(s) for a string of decimal digits.
RECURSIVE IntOfStr(_)
IntOfStr(s) ==
    IF s = <<>> THEN 0
    ELSE 10 * IntOfStr(SubSeq(s, 1, Len(s) - 1)) + DigitVal(s[Len(s)])

\* c * n : the character c repeated n times.
RECURSIVE Repeat(_, _)
Repeat(c, n) == IF n <= 0 THEN <<>> ELSE <<c>> \o Repeat(c, n - 1)

\* The character at position p of s, or None past the end.
At(s, p) == IF p >= 1 /\ p <= Len(s) THEN s[p] ELSE None

\* Position after the literal lit when s continues with lit at p, else 0.
MatchLit(s, p, lit) ==
    IF p >= 1 /\ p + Len(lit) - 1 <= Len(s) /\ SubSeq(s, p, p + Len(lit) - 1) = lit
    THEN p + Len(lit) ELSE 0

\* Position after the longest run of characters of set cs starting at p
\* (p itself when the run is empty): a greedy  [cs]*.
RECURSIVE SkipRun(_, _, _)
SkipRun(s, p, cs) ==
    IF p >= 1 /\ p <= Len(s) /\ s[p] \in cs THEN SkipRun(s, p + 1, cs) ELSE p

\* q when the run from p to q is not empty, else 0: a greedy  [cs]+.
NonEmptyRun(p, q) == IF q > p THEN q ELSE 0

\* Position after  \s+  at p, else 0.
MatchWs(s, p) == NonEmptyRun(p, SkipRun(s, p, {" "}))

NoParen == [end |-> 0, num |-> <<>>]

\* (\d+)\)  between q and r, q after the "(" and r after the digits.
ParenIntAt(s, q, r) ==
    IF q # 0 /\ r > q /\ At(s, r) = ")"
    THEN [end |-> r + 1, num |-> SubSeq(s, q, r - 1)]
    ELSE NoParen

ParenIntFrom(s, q) == ParenIntAt(s, q, SkipRun(s, q, DigitSet))

\* \((\d+)\)  at p: [end |-> position after ")", num |-> the digits], end = 0
\* when it does not match.
MatchParenInt(s, p) == ParenIntFrom(s, MatchLit(s, p, <<"(">>))

\* The usage names COMP-1 .. COMP-5, by their digit.
CompNames == <<"COMP-1", "COMP-2", "COMP-3", "COMP-4", "COMP-5">>

\* (COMP(?:-[1-5])?)  whose COMP ends before position c (c = 0: no COMP).
CompAt(s, c) ==
    IF c = 0 THEN None
    ELSE IF At(s, c) = "-" /\ At(s, c + 1) \in {"1", "2", "3", "4", "5"}
         THEN CompNames[DigitVal(s[c + 1])]
         ELSE "COMP"

\* (?:\s+(COMP(?:-[1-5])?))?  at p: the captured usage, None when the
\* optional group matches nothing.
MatchComp(s, p) == CompAt(s, MatchLit(s, MatchWs(s, p), <<"C", "O", "M", "P">>))

\* ------------------------------------------------------------ PIC analyzer
NoMatch == [matched |-> FALSE, sign |-> FALSE, base_type |-> None,
            integer_digits |-> 0, decimal_digits |-> 0, comp |-> None]

\* (S)?  at p1, the position after PIC\s+ (0 when that did not match).
HeadAt(s, p1) ==
    IF p1 = 0 THEN [pos |-> 0, sign |-> FALSE]
    ELSE IF At(s, p1) = "S" THEN [pos |-> p1 + 1, sign |-> TRUE]
    ELSE [pos |-> p1, sign |-> FALSE]

\* PIC\s+(S)? : [pos |-> position after the optional S, sign |-> S was read],
\* pos = 0 when the phrase does not start with PIC and white space.
PicHead(s) == HeadAt(s, MatchWs(s, MatchLit(s, 1, <<"P", "I", "C">>)))

\* V(?:9\((\d+)\)|(\d+))  at p, given the match paren of \((\d+)\) after "V9"
\* and the end inl of the digits after "V".
DecimalAt(s, p, paren, inl) ==
    IF At(s, p) # "V" THEN [end |-> p, digits |-> 0]
    ELSE IF paren.end # 0 THEN [end |-> paren.end, digits |-> IntOfStr(paren.num)]
    ELSE IF inl > p + 1
         THEN [end |-> inl, digits |-> IntOfStr(SubSeq(s, p + 1, inl - 1))]
    ELSE [end |-> p, digits |-> 0]

\* (?:V(?:9\((\d+)\)|(\d+)))?  at p: the position after the group and
\* int(decimal_paren or decimal_inline or 0).
PicDecimal(s, p) ==
    DecimalAt(s, p,
              IF At(s, p + 1) = "9" THEN MatchParenInt(s, p + 2) ELSE NoParen,
              SkipRun(s, p + 1, DigitSet))

CountedMatch(s, h, len, dec) ==
    [matched |-> TRUE, sign |-> h.sign, base_type |-> s[h.pos],
     integer_digits |-> IntOfStr(len.num),
     decimal_digits |-> dec.digits,
     comp |-> MatchComp(s, dec.end)]

CountedLen(s, h, len) ==
    IF h.pos = 0 \/ At(s, h.pos) \notin {"X", "A", "9"} \/ len.end = 0 THEN NoMatch
    ELSE CountedMatch(s, h, len, PicDecimal(s, len.end))

\* ([XA9])\((\d+)\) and what follows it, from the position h.pos.
PicCounted(s, h) == CountedLen(s, h, MatchParenInt(s, h.pos + 1))

\* VSAMTypeConverter.PIC_PATTERN.match(s) followed by the int() conversions
\* of parse_pic_clause: PIC\s+(S)?([XA9])\((\d+)\)(?:V(?:9\((\d+)\)|(\d+)))?
\* (?:\s+(COMP(?:-[1-5])?))?  The trailing optional OCCURS group captures a
\* value parse_pic_clause never reads.
PIC_PATTERN(s) == PicCounted(s, PicHead(s))

\* (?:V([9]+))?  at p, given the end q of the run of 9 after "V".
InlineDecimalAt(s, p, q) ==
    IF At(s, p) = "V" /\ q > p + 1 THEN [end |-> q, digits |-> q - (p + 1)]
    ELSE [end |-> p, digits |-> 0]

InlineMatch(s, h, q, dec) ==
    [matched |-> TRUE, sign |-> h.sign, base_type |-> s[h.pos],
     integer_digits |-> q - h.pos,
     decimal_digits |-> dec.digits,
     comp |-> MatchComp(s, dec.end)]

InlineRun(s, h, q) ==
    IF h.pos = 0 \/ q = h.pos THEN NoMatch
    ELSE InlineMatch(s, h, q, InlineDecimalAt(s, q, SkipRun(s, q + 1, {"9"})))

\* ([XA9]+) and what follows it, from the position h.pos.
PicInline(s, h) == InlineRun(s, h, SkipRun(s, h.pos, {"X", "A", "9"}))

\* VSAMTypeConverter.PIC_INLINE_PATTERN.match(s) followed by the len()
\* conversions: PIC\s+(S)?([XA9]+)(?:V([9]+))?(?:\s+(COMP(?:-[1-5])?))?
PIC_INLINE_PATTERN(s) == PicInline(s, PicHead(s))

\* usage_map.get(comp, DISPLAY)
UsageOf(comp) == IF comp = None THEN "DISPLAY" ELSE comp

\* The storage length branch of parse_pic_clause.
StorageLength(usage, integer_digits, decimal_digits) ==
    IF usage = "DISPLAY" THEN integer_digits + decimal_digits
    ELSE IF usage = "COMP-3" THEN ((integer_digits + decimal_digits + 1) \div 2) + 1
    ELSE IF usage \in {"COMP", "COMP-4", "COMP-5"}
         THEN IF integer_digits + decimal_digits <= 4 THEN 2
              ELSE IF integer_digits + decimal_digits <= 9 THEN 4 ELSE 8
    ELSE IF usage = "COMP-1" THEN 4
    ELSE IF usage = "COMP-2" THEN 8
    ELSE integer_digits

ValueError == [error |-> "ValueError"]

IsError(r) == "error" \in DOMAIN r

PicTypeOf(base_type, sign) ==
    IF base_type = "X" THEN "ALPHANUMERIC"
    ELSE IF base_type = "A" THEN "ALPHABETIC"
    ELSE IF sign THEN "SIGNED_NUMERIC" ELSE "NUMERIC"

\* The ParsedPicClause parse_pic_clause builds from the match m.
ParsedOf(m) ==
    IF ~m.matched THEN ValueError
    ELSE [pic_type |-> PicTypeOf(m.base_type, m.sign),
          integer_digits |-> m.integer_digits,
          decimal_digits |-> m.decimal_digits,
          usage |-> UsageOf(m.comp),
          total_length |-> StorageLength(UsageOf(m.comp), m.integer_digits,
                                         m.decimal_digits),
          is_signed |-> m.sign \/ PicTypeOf(m.base_type, m.sign) = "SIGNED_NUMERIC"]

\* The standard pattern first, the inline pattern when it does not match.
FirstMatch(m, pic) == IF m.matched THEN m ELSE PIC_INLINE_PATTERN(pic)

\* VSAMTypeConverter.parse_pic_clause on an upper-cased, stripped phrase.
parse_pic_clause(pic) == ParsedOf(FirstMatch(PIC_PATTERN(pic), pic))

\* ParsedPicClause properties.
total_digits(parsed) == parsed.integer_digits + parsed.decimal_digits
is_alphanumeric(parsed) == parsed.pic_type \in {"ALPHANUMERIC", "ALPHABETIC"}
is_packed(parsed) == parsed.usage = "COMP-3"
is_binary(parsed) == parsed.usage \in {"COMP", "COMP-4", "COMP-5"}

\* Spark types.
SparkType(kind) == [kind |-> kind, precision |-> 0, scale |-> 0]
DecimalType(p, s) == [kind |-> "Decimal", precision |-> p, scale |-> s]

get_binary_type(digits) ==
    IF digits <= 4 THEN SparkType("Short")
    ELSE IF digits <= 9 THEN SparkType("Integer") ELSE SparkType("Long")

get_integer_type(digits) ==
    IF digits <= 4 THEN SparkType("Short")
    ELSE IF digits <= 9 THEN SparkType("Integer") ELSE SparkType("Long")

\* map_to_spark_type with precision and scale of DecimalType exchanged.
MapToSparkTypeSwapped(parsed) ==
    IF is_alphanumeric(parsed) THEN SparkType("String")
    ELSE IF parsed.usage = "COMP-1" THEN SparkType("Float")
    ELSE IF parsed.usage = "COMP-2" THEN SparkType("Double")
    ELSE IF is_packed(parsed) \/ parsed.decimal_digits > 0
         THEN DecimalType(parsed.decimal_digits, total_digits(parsed))
    ELSE IF is_binary(parsed) THEN get_binary_type(total_digits(parsed))
    ELSE get_integer_type(total_digits(parsed))

\* VSAMTypeConverter._map_to_spark_type
map_to_spark_type(parsed) ==
    IF is_alphanumeric(parsed) THEN SparkType("String")
    ELSE IF parsed.usage = "COMP-1" THEN SparkType("Float")
    ELSE IF parsed.usage = "COMP-2" THEN SparkType("Double")
    ELSE IF is_packed(parsed) \/ parsed.decimal_digits > 0
         THEN DecimalType(total_digits(parsed), parsed.decimal_digits)
    ELSE IF is_binary(parsed) THEN get_binary_type(total_digits(parsed))
    ELSE get_integer_type(total_digits(parsed))

\* StringType for an unparseable phrase.
ConvertParsed(parsed) ==
    IF IsError(parsed) THEN SparkType("String") ELSE map_to_spark_type(parsed)

\* VSAMTypeConverter.convert
convert(pic) == ConvertParsed(parse_pic_clause(pic))

\* The ValueError of parse_pic_clause propagates.
StorageOf(parsed) ==
    IF IsError(parsed) THEN ValueError ELSE [value |-> parsed.total_length]

\* VSAMTypeConverter.get_storage_bytes
get_storage_bytes(pic) == StorageOf(parse_pic_clause(pic))

\* ------------------------------------------------------------------ state
VARIABLES
    \* PIC analyzer: the picture as written, the phrase handed to the
    \* converter, the operation applied and what it returned
    picture, pic_clause, pic_op, pic_result,
    \* copybook parser: the statements read so far, and parse_content's
    \* fields, current_offset and parent_stack after them; the parser's
    \* ignore_fillers attribute
    stmts, fields, current_offset, parent_stack, ignore_fillers,
    \* decimal codecs: the bytes and scale given, the operation applied last,
    \* the Decimal decoded, and the precision and bytes of the encoding
    data, scale, dec_op, decoded, precision, encoded,
    \* _clean_content: the lines of the content given, the operation applied
    \* last, the statements returned, and what _parse_line makes of each
    content, clean_op, lines, line_fields,
    \* DDL parser: the items of the statement given and its text, the
    \* operation applied last and the table returned
    ddl_items, ddl_content, ddl_op, table,
    \* DB2 type converter: the spelling of the type given and its text, the
    \* operation applied last and what it returned
    sql_spelling, db2_type, db2_op, db2_result,
    \* DCLGEN parser: the DECLARE block and the host variable lines of the
    \* file given and its text, the operation applied last and the result
    dcl_source, dcl_hosts, dcl_content, dcl_op, dcl_result,
    \* CCSID resolution: the CCSID given and the default_ccsid of the
    \* DB2TypeConverter, the codec and ccsid of the EBCDICConverter built
    \* for it, and the codec get_codec returned
    ccsid_given, default_ccsid, eb_codec, eb_ccsid, db2_codec,
    \* BaseMigrator: where the migrate call in progress stands, its
    \* output_path argument, the steps it ran with what each did, _result,
    \* the number of migrate calls made and the reading of the clock
    mig_pc, mig_output_path, mig_trace, mig_result, mig_calls, mig_clock,
    \* MainframeMigrator: its config, where the run call in progress stands
    \* and the exception that ended it, the datasets argument of run,
    \* datasets_to_process, the summary, the session_manager and _spark, the
    \* number of sessions the builder made, the output directories on disk,
    \* the paths clean_output was called with during the run, the run_vsam
    \* call in progress and what it returned, and the number of calls made
    mm_config, mm_pc, mm_error, mm_datasets, mm_todo, mm_summary,
    session_manager, mm_spark, mm_built, mm_out, mm_cleaned, mm_vsam,
    mm_vsam_result, mm_calls,
    \* SchemaValidator: its three attributes, the schemas given to
    \* compare_schemas, the operation applied last and the result
    sv_flags, sv_source, sv_target, sv_op, sv_result

picVars == <<picture, pic_clause, pic_op, pic_result>>
cbVars == <<stmts, fields, current_offset, parent_stack, ignore_fillers>>
decVars == <<data, scale, dec_op, decoded, precision, encoded>>
cleanVars == <<content, clean_op, lines, line_fields>>
ddlVars == <<ddl_items, ddl_content, ddl_op, table>>
db2Vars == <<sql_spelling, db2_type, db2_op, db2_result>>
dclVars == <<dcl_source, dcl_hosts, dcl_content, dcl_op, dcl_result>>
\* The state of the subsystems added to the first three.
ccsVars == <<ccsid_given, default_ccsid, eb_codec, eb_ccsid, db2_codec>>
\* The state of the subsystems behind the parsers and converters.
migVars == <<mig_pc, mig_output_path, mig_trace, mig_result, mig_calls, mig_clock>>
mmVars ==
    <<mm_config, mm_pc, mm_error, mm_datasets, mm_todo, mm_summary, session_manager,
      mm_spark, mm_built, mm_out, mm_cleaned, mm_vsam, mm_vsam_result, mm_calls>>
svVars == <<sv_flags, sv_source, sv_target, sv_op, sv_result>>
lateVars == <<ccsVars, migVars, mmVars, svVars>>
extVars == <<cleanVars, ddlVars, db2Vars, dclVars, lateVars>>
vars == <<picVars, cbVars, decVars, extVars>>

NoResult == [none |-> TRUE]

\* An int that is None.
NoInt == -1

\* --------------------------------------------- PIC analyzer: the inputs
Usages == {None, "DISPLAY", "COMP", "COMP-1", "COMP-2", "COMP-3", "COMP-4", "COMP-5"}

\* The pictures of the grammar: an optional S, a base run written either as
\* repeated characters or as one character and a count, an optional V with a
\* fraction run written either way, and an optional usage.
Pictures ==
    { p \in [keyword : {"PIC", "PICTURE"}, sign : BOOLEAN, base : {"X", "A", "9"},
             int_form : {"count", "repeat"}, int_digits : 1..MaxIntDigits,
             frac_form : {"none", "count", "repeat"}, frac_digits : 0..MaxFracDigits,
             usage : Usages] :
        /\ (p.frac_form = "none") = (p.frac_digits = 0)
        /\ p.base # "9" => (~p.sign /\ p.frac_form = "none")
        /\ p.keyword = "PICTURE" => (p.int_form = "count" /\ p.usage \in {None, "COMP-3"}) }

\* A picture without fraction.
Pic(sign, base, int_form, int_digits, usage) ==
    [keyword |-> "PIC", sign |-> sign, base |-> base, int_form |-> int_form,
     int_digits |-> int_digits, frac_form |-> "none", frac_digits |-> 0,
     usage |-> usage]

\* The text of a usage.
UsageText(u) ==
    IF u = "DISPLAY" THEN <<"D", "I", "S", "P", "L", "A", "Y">>
    ELSE IF u = "COMP" THEN <<"C", "O", "M", "P">>
    ELSE <<"C", "O", "M", "P", "-">>
         \o <<DigitChars[(CHOOSE i \in 1..5 : CompNames[i] = u) + 1]>>

\* A run of n positions of c: c(n) or c repeated n times.
Run(c, form, n) ==
    IF form = "count" THEN <<c, "(">> \o StrOfNat(n) \o <<")">> ELSE Repeat(c, n)

\* The phrase text of a picture.
RenderPic(p) ==
    (IF p.keyword = "PICTURE" THEN <<"P", "I", "C", "T", "U", "R", "E", " ">>
     ELSE <<"P", "I", "C", " ">>)
    \o (IF p.sign THEN <<"S">> ELSE <<>>)
    \o Run(p.base, p.int_form, p.int_digits)
    \o (IF p.frac_form = "none" THEN <<>>
        ELSE <<"V">> \o Run("9", p.frac_form, p.frac_digits))
    \o (IF p.usage = None THEN <<>> ELSE <<" ">> \o UsageText(p.usage))

\* The analyzer is not in use.
PicIdle ==
    /\ picture = Pic(FALSE, "X", "repeat", 1, None)
    /\ pic_clause = <<>>
    /\ pic_op = "none"
    /\ pic_result = NoResult

\* The copybook parser is not in use.
CopybookIdle ==
    /\ stmts = <<>>
    /\ fields = <<>>
    /\ current_offset = 0
    /\ parent_stack = <<>>
    /\ ignore_fillers = FALSE

\* The codecs are not in use.
DecodeIdle ==
    /\ data = <<>>
    /\ scale = 0
    /\ dec_op = "none"
    /\ decoded = NoResult
    /\ precision = 0
    /\ encoded = NoResult

\* _clean_content is not in use.
CleanIdle ==
    /\ content = <<>>
    /\ clean_op = "none"
    /\ lines = <<>>
    /\ line_fields = <<>>

\* The DDL parser is not in use.
DdlIdle ==
    /\ ddl_items = <<>>
    /\ ddl_content = <<>>
    /\ ddl_op = "none"
    /\ table = NoResult

\* The DB2 type converter is not in use.
Db2Idle ==
    /\ sql_spelling = NoResult
    /\ db2_type = <<>>
    /\ db2_op = "none"
    /\ db2_result = NoResult

\* The DCLGEN parser is not in use.
DclIdle ==
    /\ dcl_source = NoResult
    /\ dcl_hosts = <<>>
    /\ dcl_content = <<>>
    /\ dcl_op = "none"
    /\ dcl_result = NoResult

\* No CCSID is being resolved.
CcsIdle ==
    /\ ccsid_given = NoInt
    /\ default_ccsid = 37
    /\ eb_codec = None
    /\ eb_ccsid = NoInt
    /\ db2_codec = None

\* No BaseMigrator exists.
MigIdle ==
    /\ mig_pc = "none"
    /\ mig_output_path = None
    /\ mig_trace = <<>>
    /\ mig_result = NoResult
    /\ mig_calls = 0
    /\ mig_clock = 0

\* No MainframeMigrator exists.
MmIdle ==
    /\ mm_config = NoResult
    /\ mm_pc = "none"
    /\ mm_error = None
    /\ mm_datasets = NoResult
    /\ mm_todo = <<>>
    /\ mm_summary = NoResult
    /\ session_manager = NoResult
    /\ mm_spark = NoInt
    /\ mm_built = 0
    /\ mm_out = <<>>
    /\ mm_cleaned = {}
    /\ mm_vsam = NoResult
    /\ mm_vsam_result = NoResult
    /\ mm_calls = 0

\* No SchemaValidator exists.
SvIdle ==
    /\ sv_flags = NoResult
    /\ sv_source = <<>>
    /\ sv_target = <<>>
    /\ sv_op = "none"
    /\ sv_result = NoResult

\* The subsystems behind the parsers and converters are not in use.
LateIdle == CcsIdle /\ MigIdle /\ MmIdle /\ SvIdle

\* The parsers and converters are not in use.
EarlyIdle ==
    /\ PicIdle
    /\ CopybookIdle
    /\ DecodeIdle
    /\ CleanIdle
    /\ DdlIdle
    /\ Db2Idle
    /\ DclIdle

earlyVars == <<picVars, cbVars, decVars, cleanVars, ddlVars, db2Vars, dclVars>>

\* The subsystems added to the first three are not in use.
ExtIdle == CleanIdle /\ DdlIdle /\ Db2Idle /\ DclIdle /\ LateIdle

InitPic ==
    /\ CopybookIdle
    /\ DecodeIdle
    /\ ExtIdle
    /\ picture \in Pictures
    /\ pic_clause = RenderPic(picture)
    /\ pic_op = "none"
    /\ pic_result = NoResult

\* converter.parse_pic_clause(pic_clause)
ParsePicClause ==
    /\ pic_op = "none"
    /\ pic_op' = "parse_pic_clause"
    /\ pic_result' = parse_pic_clause(pic_clause)
    /\ UNCHANGED <<picture, pic_clause, cbVars, decVars, extVars>>

\* converter.convert(pic_clause)
Convert ==
    /\ pic_op = "none"
    /\ pic_op' = "convert"
    /\ pic_result' = convert(pic_clause)
    /\ UNCHANGED <<picture, pic_clause, cbVars, decVars, extVars>>

\* converter.get_storage_bytes(pic_clause)
GetStorageBytes ==
    /\ pic_op = "none"
    /\ pic_op' = "get_storage_bytes"
    /\ pic_result' = get_storage_bytes(pic_clause)
    /\ UNCHANGED <<picture, pic_clause, cbVars, decVars, extVars>>

NextPic == ParsePicClause \/ Convert \/ GetStorageBytes

SpecPic == InitPic /\ [][NextPic]_vars

\* ---------------------------------------------------------- copybook parser
\* A statement of a copybook, as _parse_line's patterns see it: the level and
\* name LEVEL_PATTERN captures, the picture PIC_PATTERN and COMP_PATTERN find
\* in the rest of the line (pic is <<>> when there is none), whether
\* OCCURS_PATTERN matches and its count, and the name REDEFINES_PATTERN
\* captures (None when it does not match).
Stmt(level, name, pic, has_occurs, occurs, redefines) ==
    [level |-> level, name |-> name, pic |-> pic, has_occurs |-> has_occurs,
     occurs |-> occurs, redefines |-> redefines]

\* The statements copybooks are made of; among them an item that has the
\* name of a group, and an OCCURS 0.
CopybookStatements ==
    { Stmt(1, "REC", <<>>, FALSE, 1, None),
      Stmt(5, "A", <<Pic(FALSE, "X", "count", 4, None)>>, FALSE, 1, None),
      Stmt(5, "B", <<Pic(FALSE, "X", "count", 4, None)>>, FALSE, 1, None),
      Stmt(5, "C", <<Pic(FALSE, "9", "count", 4, None)>>, FALSE, 1, "B"),
      Stmt(5, "D", <<Pic(FALSE, "X", "count", 2, None)>>, FALSE, 1, None),
      Stmt(5, "FILLER", <<Pic(FALSE, "X", "repeat", 3, None)>>, FALSE, 1, None),
      Stmt(5, "GRP", <<>>, TRUE, 2, None),
      Stmt(10, "E", <<Pic(TRUE, "9", "count", 5, "COMP")>>, TRUE, 2, None),
      Stmt(10, "GRP", <<Pic(FALSE, "X", "repeat", 1, None)>>, FALSE, 1, None),
      Stmt(5, "Z", <<Pic(FALSE, "X", "count", 2, None)>>, TRUE, 0, None),
      Stmt(88, "FLAG", <<>>, FALSE, 1, None) }

\* The pic_clause _parse_line rebuilds: "PIC " + sign + integer part, "V" and
\* the decimal part when there is one, " " and the COMP usage when
\* COMP_PATTERN finds one (DISPLAY is not a COMP usage and is dropped).
ReconstructPic(p) ==
    RenderPic([p EXCEPT !.keyword = "PIC",
                        !.usage = IF p.usage = "DISPLAY" THEN None ELSE p.usage])

\* CopybookField(...) as _parse_line returns it; pic_clause <<>> is None.
parse_line(st) ==
    [name |-> st.name,
     level |-> st.level,
     pic_clause |-> IF st.pic = <<>> THEN <<>> ELSE ReconstructPic(st.pic[1]),
     length |-> 0,
     offset |-> 0,
     is_filler |-> st.name = "FILLER",
     is_group |-> st.pic = <<>> /\ st.name # "FILLER",
     occurs |-> IF st.has_occurs THEN st.occurs ELSE 1,
     redefines |-> st.redefines,
     parent |-> None,
     children |-> <<>>]

\* _parse_line returns None for levels 66 and 88.
IsSkipped(st) == st.level \in {66, 88}

is_elementary(f) == f.pic_clause # <<>> /\ ~f.is_group
total_length(f) == f.length * f.occurs

\* _calculate_length: every rebuilt pic_clause starts with "PIC " and a
\* non-empty run of X, A or 9, so get_storage_bytes does not raise here.
calculate_length(pic) == IF pic = <<>> THEN 0 ELSE get_storage_bytes(pic).value

\* while parent_stack and parent_stack[-1][0] >= level: parent_stack.pop()
RECURSIVE PopStack(_, _)
PopStack(stack, level) ==
    IF stack # <<>> /\ stack[Len(stack)].level >= level
    THEN PopStack(SubSeq(stack, 1, Len(stack) - 1), level)
    ELSE stack

\* The index of the last field of fs named name, 0 when there is none
\* (for f in reversed(fields): if f.name == name: ...; break).
RECURSIVE LastNamed(_, _)
LastNamed(fs, name) ==
    IF fs = <<>> THEN 0
    ELSE IF fs[Len(fs)].name = name THEN Len(fs)
    ELSE LastNamed(SubSeq(fs, 1, Len(fs) - 1), name)

\* if parent_stack: parent, and the cursor as offset of a group item;
\* else: the cursor as offset.
WithParent(f, stack, cur) ==
    IF stack # <<>>
    THEN [f EXCEPT !.parent = stack[Len(stack)].name,
                   !.offset = IF f.is_group THEN cur ELSE f.offset]
    ELSE [f EXCEPT !.offset = cur]

\* if field.is_elementary: offset and length.
WithLength(f, cur) ==
    IF is_elementary(f)
    THEN [f EXCEPT !.offset = cur, !.length = calculate_length(f.pic_clause)]
    ELSE f

\* The field f overlaid on the field at index target of fs (0: none found).
Overlay(f, fs, target) ==
    IF target # 0 THEN [f EXCEPT !.offset = fs[target].offset] ELSE f

\* if field.redefines: the offset of the last field of that name.
WithRedefines(f, fs) ==
    Overlay(f, fs, IF f.redefines = None THEN 0 ELSE LastNamed(fs, f.redefines))

\* The field parse_content makes of the parsed line f0 at the cursor cur
\* under the popped stack.
PlaceField(f0, stack, cur, fs) ==
    WithRedefines(WithLength(WithParent(f0, stack, cur), cur), fs)

\* current_offset += field.total_length, for elementary items.
AdvanceCursor(f, cur) == IF is_elementary(f) THEN cur + total_length(f) ELSE cur

ChildAt(fs, f, i) ==
    IF i = 0 THEN fs ELSE [fs EXCEPT ![i].children = Append(fs[i].children, f.name)]

\* fields after the name of f is added to the children of the last field
\* that has the name on top of the stack.
AddChild(fs, stack, f) ==
    ChildAt(fs, f, IF stack = <<>> THEN 0 ELSE LastNamed(fs, stack[Len(stack)].name))

\* The state after the placed field f: children, stack push, filter, append.
StepWithField(ps, ignore, stack, f) ==
    [fields |-> IF ignore /\ f.is_filler THEN AddChild(ps.fields, stack, f)
                ELSE Append(AddChild(ps.fields, stack, f), f),
     current_offset |-> AdvanceCursor(f, ps.current_offset),
     parent_stack |-> IF f.is_group
                      THEN Append(stack, [level |-> f.level, name |-> f.name,
                                          offset |-> f.offset])
                      ELSE stack]

StepWithStack(ps, st, ignore, stack) ==
    StepWithField(ps, ignore, stack,
                  PlaceField(parse_line(st), stack, ps.current_offset, ps.fields))

\* One iteration of the loop of parse_content on the state
\* ps = [fields, current_offset, parent_stack].
ParseStep(ps, st, ignore) ==
    IF IsSkipped(st) THEN ps
    ELSE StepWithStack(ps, st, ignore, PopStack(ps.parent_stack, st.level))

\* CopybookParser.parse_content on the statements ss: the loop from the
\* empty state.
RECURSIVE parse_content(_, _)
parse_content(ss, ignore) ==
    IF ss = <<>> THEN [fields |-> <<>>, current_offset |-> 0, parent_stack |-> <<>>]
    ELSE ParseStep(parse_content(SubSeq(ss, 1, Len(ss) - 1), ignore), ss[Len(ss)], ignore)

\* max(max_offset, end_offset) for an elementary field f.
MaxEnd(max_offset, f) ==
    IF is_elementary(f) /\ f.offset + total_length(f) > max_offset
    THEN f.offset + total_length(f) ELSE max_offset

\* CopybookParser.get_record_length
RECURSIVE get_record_length(_)
get_record_length(fs) ==
    IF fs = <<>> THEN 0
    ELSE MaxEnd(get_record_length(SubSeq(fs, 1, Len(fs) - 1)), fs[Len(fs)])

Init ==
    /\ PicIdle
    /\ DecodeIdle
    /\ ExtIdle
    /\ stmts = <<>>
    /\ fields = <<>>
    /\ current_offset = 0
    /\ parent_stack = <<>>
    /\ ignore_fillers \in BOOLEAN

\* The loop state ps becomes the parser's state.
SetParsed(ps) ==
    /\ fields' = ps.fields
    /\ current_offset' = ps.current_offset
    /\ parent_stack' = ps.parent_stack

\* parse_content reads one more statement: the state after the step is what
\* parse_content returns for the copybook that ends here.
ParseStatement ==
    /\ Len(stmts) < MaxStmts
    /\ \E st \in CopybookStatements :
         /\ stmts' = Append(stmts, st)
         /\ SetParsed(ParseStep([fields |-> fields, current_offset |-> current_offset,
                                 parent_stack |-> parent_stack], st, ignore_fillers))
    /\ UNCHANGED <<ignore_fillers, picVars, decVars, extVars>>

Next == ParseStatement

Spec == Init /\ [][Next]_vars

\* ------------------------------------------------------------ decimal codecs
\* Largest number of bytes of a generated input.
MaxBytes == 2
\* Largest scale passed to a codec.
MaxScale == 2

\* A Decimal: value = (-1)^neg * coef / 10^places; Decimal("-0") keeps its sign.
Dec(neg, coef, places) == [neg |-> neg, coef |-> coef, places |-> places]

RECURSIVE Pow10(_)
Pow10(n) == IF n <= 0 THEN 1 ELSE 10 * Pow10(n - 1)

\* The digits of the numeral s with its "." removed.
RECURSIVE WithoutPoint(_)
WithoutPoint(s) ==
    IF s = <<>> THEN <<>>
    ELSE IF s[1] = "." THEN WithoutPoint(Tail(s))
    ELSE <<s[1]>> \o WithoutPoint(Tail(s))

\* The number of characters of s after its ".", 0 when it has none.
RECURSIVE PlacesOf(_)
PlacesOf(s) ==
    IF s = <<>> THEN 0
    ELSE IF s[Len(s)] = "." THEN 0
    ELSE IF "." \in {s[i] : i \in 1..Len(s)} THEN 1 + PlacesOf(SubSeq(s, 1, Len(s) - 1))
    ELSE 0

\* Decimal(num_str) for an unsigned numeral.
DecimalOfUnsigned(s, neg) == Dec(neg, IntOfStr(WithoutPoint(s)), PlacesOf(s))

\* Decimal(num_str): an optional "-", digits, an optional "." among them.
DecimalOf(s) ==
    IF s # <<>> /\ s[1] = "-" THEN DecimalOfUnsigned(Tail(s), TRUE)
    ELSE DecimalOfUnsigned(s, FALSE)

\* "".join(str(d) for d in digits)
RECURSIVE JoinStr(_)
JoinStr(digits) ==
    IF digits = <<>> THEN <<>> ELSE StrOfNat(digits[1]) \o JoinStr(Tail(digits))

\* The left padding of "Insert decimal point".
PadToScale(num_str, sc) ==
    IF Len(num_str) <= sc THEN Repeat("0", sc - Len(num_str) + 1) \o num_str
    ELSE num_str

\* The point put scale digits from the left: num_str[:scale] + "." + num_str[scale:]
SplitAtScaleFromLeft(s, sc) ==
    SubSeq(s, 1, sc) \o <<".">> \o SubSeq(s, sc + 1, Len(s))

\* num_str[:-scale] + "." + num_str[-scale:]
SplitAtScale(s, sc) ==
    SubSeq(s, 1, Len(s) - sc) \o <<".">> \o SubSeq(s, Len(s) - sc + 1, Len(s))

\* "Insert decimal point": only when scale > 0.
InsertPoint(num_str, sc) ==
    IF sc > 0 THEN SplitAtScale(PadToScale(num_str, sc), sc) ELSE num_str

\* The two nibbles of every byte but the last, then the high nibble of the
\* last byte.
RECURSIVE PackedDigits(_)
PackedDigits(bytes) ==
    IF Len(bytes) = 1 THEN <<bytes[1] \div 16>>
    ELSE <<bytes[1] \div 16, bytes[1] % 16>> \o PackedDigits(Tail(bytes))

\* "Apply sign (D = negative)"
ApplyPackedSign(num_str, sign_nibble) ==
    IF sign_nibble = 13 THEN <<"-">> \o num_str ELSE num_str

\* EBCDICConverter.decode_packed_decimal
decode_packed_decimal(bytes, sc) ==
    IF bytes = <<>> THEN Dec(FALSE, 0, 0)
    ELSE DecimalOf(ApplyPackedSign(InsertPoint(JoinStr(PackedDigits(bytes)), sc),
                                   bytes[Len(bytes)] % 16))

\* int(abs(value) * 10 ** scale), value * 1 when scale is 0.
ScaledInt(value, sc) ==
    IF sc >= value.places THEN value.coef * Pow10(sc - value.places)
    ELSE value.coef \div Pow10(value.places - sc)

\* str(value).zfill(precision)
ZFill(s, width) == Repeat("0", width - Len(s)) \o s

\* for i in range(0, len(digits) - 1, 2): result.append((high << 4) | low)
RECURSIVE PackPairs(_, _)
PackPairs(digits, i) ==
    IF i > Len(digits) - 1 THEN <<>>
    ELSE <<DigitVal(digits[i]) * 16 + DigitVal(digits[i + 1])>>
         \o PackPairs(digits, i + 2)

IndexError == [error |-> "IndexError"]

\* "Last digit and sign" on the packed pairs result.
PackLast(digits, result, sign) ==
    IF Len(digits) % 2 = 0
    THEN [bytes |-> Append(result, DigitVal(digits[Len(digits)]) * 16 + sign)]
    ELSE IF result = <<>> THEN IndexError
    ELSE [bytes |-> [result EXCEPT ![Len(result)] = (@ \div 16) * 16 + sign]]

PackDigits(digits, sign) == PackLast(digits, PackPairs(digits, 1), sign)

\* sign = 0x0C if value >= 0 else 0x0D
SignNibbleOf(value) == IF value.neg /\ value.coef > 0 THEN 13 ELSE 12

\* EBCDICConverter.encode_packed_decimal
encode_packed_decimal(value, prec, sc) ==
    PackDigits(ZFill(StrOfNat(ScaledInt(value, sc)), prec), SignNibbleOf(value))

\* str(byte & 0x0F) of every byte.
RECURSIVE ZonedDigits(_)
ZonedDigits(bytes) ==
    IF bytes = <<>> THEN <<>>
    ELSE StrOfNat(bytes[1] % 16) \o ZonedDigits(Tail(bytes))

\* The sign taken from the zone of the first byte instead of the last.
ZonedSignFirstByte(bytes) == IF bytes[1] \div 16 = 13 THEN -1 ELSE 1

\* sign = -1 when the zone of the last byte is 0x0D.
ZonedSign(bytes) == IF bytes[Len(bytes)] \div 16 = 13 THEN -1 ELSE 1

\* Decimal * sign
TimesSign(d, sign) == Dec(d.neg # (sign < 0), d.coef, d.places)

\* EBCDICConverter.decode_zoned_decimal
decode_zoned_decimal(bytes, sc) ==
    IF bytes = <<>> THEN Dec(FALSE, 0, 0)
    ELSE TimesSign(DecimalOf(InsertPoint(ZonedDigits(bytes), sc)), ZonedSign(bytes))

\* The nibbles inputs are generated from: BCD digits 0 and 9, and 0xD, which
\* is no BCD digit and is the negative zone.
NibbleSample == {0, 9, 13}

\* The bytes of a generated input before its last byte.
BodyBytes == {16 * h + l : h \in NibbleSample, l \in NibbleSample}

\* The last bytes of a generated input: every sign nibble and every zone.
LastBytes ==
    {16 * h + l : h \in NibbleSample, l \in 0..15}
    \cup {16 * h + l : h \in 0..15, l \in NibbleSample}

\* The generated inputs of n bytes.
GeneratedInputs(n) ==
    IF n = 0 THEN {<<>>}
    ELSE {Append(b, l) : b \in [1..(n - 1) -> BodyBytes], l \in LastBytes}

\* The packed and zoned images of the documented scenarios:
\* 12 34 5C, 00 12 3D, 01 23 4C, F1 F2 D3, F0 F4 F2.
ScenarioInputs ==
    { <<18, 52, 92>>, <<0, 18, 61>>, <<1, 35, 76>>,
      <<241, 242, 211>>, <<240, 244, 242>> }

CodecInputs == ScenarioInputs \cup UNION {GeneratedInputs(n) : n \in 0..MaxBytes}

InitDecode ==
    /\ PicIdle
    /\ CopybookIdle
    /\ ExtIdle
    /\ data \in CodecInputs
    /\ scale \in 0..MaxScale
    /\ dec_op = "none"
    /\ decoded = NoResult
    /\ precision = 0
    /\ encoded = NoResult

\* converter.decode_packed_decimal(data, scale)
DecodePackedDecimal ==
    /\ dec_op = "none"
    /\ dec_op' = "decode_packed_decimal"
    /\ decoded' = decode_packed_decimal(data, scale)
    /\ UNCHANGED <<data, scale, precision, encoded, picVars, cbVars, extVars>>

\* converter.encode_packed_decimal(decoded, precision, scale) on the value
\* decoded from data: the round trip, for a precision whose image has the
\* width of data.
EncodePackedDecimal ==
    /\ dec_op = "decode_packed_decimal"
    /\ data # <<>>
    /\ \E p \in 1..(2 * Len(data) - 1) :
         /\ (p + 2) \div 2 = Len(data)
         /\ precision' = p
         /\ encoded' = encode_packed_decimal(decoded, p, scale)
    /\ dec_op' = "encode_packed_decimal"
    /\ UNCHANGED <<data, scale, decoded, picVars, cbVars, extVars>>

\* converter.decode_zoned_decimal(data, scale)
DecodeZonedDecimal ==
    /\ dec_op = "none"
    /\ dec_op' = "decode_zoned_decimal"
    /\ decoded' = decode_zoned_decimal(data, scale)
    /\ UNCHANGED <<data, scale, precision, encoded, picVars, cbVars, extVars>>

NextDecode == DecodePackedDecimal \/ EncodePackedDecimal \/ DecodeZonedDecimal

SpecDecode == InitDecode /\ [][NextDecode]_vars


\* ------------------------------------------------- copybook text: cleaning
\* Largest number of lines of a content.
MaxLines == 3

\* s.lstrip(), s.rstrip(cs) and s.strip() on blanks.
LStrip(s) == SubSeq(s, SkipRun(s, 1, {" "}), Len(s))

RECURSIVE RStripSet(_, _)
RStripSet(s, cs) ==
    IF s # <<>> /\ s[Len(s)] \in cs THEN RStripSet(SubSeq(s, 1, Len(s) - 1), cs)
    ELSE s

Strip(s) == LStrip(RStripSet(s, {" "}))

\* line[7:72] when the line has 7 characters or more, else the line.
LineContent(line) ==
    IF Len(line) >= 7
    THEN SubSeq(line, 8, IF Len(line) < 72 THEN Len(line) ELSE 72)
    ELSE line

\* line_content.split("*")[0]
RECURSIVE BeforeStar(_)
BeforeStar(s) ==
    IF s = <<>> \/ s[1] = "*" THEN <<>> ELSE <<s[1]>> \o BeforeStar(Tail(s))

\* "If we have a pending continuation, complete it"
Flush(st) ==
    IF st.current_line # <<>>
    THEN [lines |-> Append(st.lines, st.current_line), current_line |-> <<>>]
    ELSE st

\* The stripped line_content c: appended when it ends with a period, kept
\* as current_line otherwise, dropped when empty.
KeepStatement(st, c) ==
    IF c = <<>> THEN st
    ELSE IF c[Len(c)] = "." THEN [st EXCEPT !.lines = Append(@, c)]
    ELSE [st EXCEPT !.current_line = c]

\* One iteration of the loop of _clean_content on st = [lines, current_line].
CleanLine(st, line) ==
    IF Strip(line) = <<>> THEN st
    ELSE IF Len(line) >= 7 /\ line[7] = "*" THEN st
    ELSE IF Len(line) >= 7 /\ line[7] = "-"
         THEN [st EXCEPT !.current_line =
                  RStripSet(@, {" "}) \o LStrip(SubSeq(line, 8, Len(line)))]
    ELSE KeepStatement(Flush(st), Strip(BeforeStar(LineContent(line))))

RECURSIVE CleanLoop(_)
CleanLoop(ls) ==
    IF ls = <<>> THEN [lines |-> <<>>, current_line |-> <<>>]
    ELSE CleanLine(CleanLoop(SubSeq(ls, 1, Len(ls) - 1)), ls[Len(ls)])

\* CopybookParser._clean_content on the lines content.split("\n") gives.
clean_content(ls) == Flush(CleanLoop(ls)).lines

\* ------------------------------------------- copybook text: _parse_line
\* The characters of [\w-] that copybook names are written with.
NameChars ==
    {"A", "B", "C", "D", "E", "F", "G", "I", "L", "M", "N", "O", "P", "R", "S",
     "T", "U", "V", "X", "-", "_"} \cup DigitSet

NoField == [none |-> TRUE]

\* LEVEL_PATTERN from the position d of the two digits: (\d{2})\s+([\w-]+)(.*)$
\* with w the position after \s+ and e the position after the name.
LevelAt(s, d, w, e) ==
    IF At(s, d) \in DigitSet /\ At(s, d + 1) \in DigitSet /\ w # 0 /\ e > w
    THEN [matched |-> TRUE, level |-> IntOfStr(SubSeq(s, d, d + 1)),
          name |-> SubSeq(s, w, e - 1), rest |-> SubSeq(s, e, Len(s))]
    ELSE [matched |-> FALSE, level |-> 0, name |-> <<>>, rest |-> <<>>]

LevelFromWs(s, d, w) == LevelAt(s, d, w, SkipRun(s, w, NameChars))

LevelFrom(s, d) == LevelFromWs(s, d, MatchWs(s, d + 2))

\* CopybookParser.LEVEL_PATTERN.match(s): ^\s*(\d{2})\s+([\w-]+)(.*)$
LEVEL_PATTERN(s) == LevelFrom(s, SkipRun(s, 1, {" "}))

\* The first position at or after p where the word lit is followed by \s+
\* and a non-empty run of cs: [from, to) is the run; from = 0: not found.
RECURSIVE SearchWord(_, _, _, _)
SearchWord(s, p, lit, cs) ==
    IF p > Len(s) THEN [from |-> 0, to |-> 0]
    ELSE IF /\ MatchWs(s, MatchLit(s, p, lit)) # 0
            /\ SkipRun(s, MatchWs(s, MatchLit(s, p, lit)), cs)
                 > MatchWs(s, MatchLit(s, p, lit))
         THEN [from |-> MatchWs(s, MatchLit(s, p, lit)),
               to |-> SkipRun(s, MatchWs(s, MatchLit(s, p, lit)), cs)]
    ELSE SearchWord(s, p + 1, lit, cs)

\* REDEFINES_PATTERN.search(rest): REDEFINES\s+([\w-]+), group 1, <<>> for None.
RedefinesOf(rest, m) == IF m.from = 0 THEN <<>> ELSE SubSeq(rest, m.from, m.to - 1)

REDEFINES_PATTERN(rest) ==
    RedefinesOf(rest, SearchWord(rest, 1, <<"R", "E", "D", "E", "F", "I", "N", "E", "S">>,
                                 NameChars))

\* OCCURS_PATTERN.search(rest): OCCURS\s+(\d+), int(group 1), 1 without match.
OccursOf(rest, m) == IF m.from = 0 THEN 1 ELSE IntOfStr(SubSeq(rest, m.from, m.to - 1))

OCCURS_PATTERN(rest) ==
    OccursOf(rest, SearchWord(rest, 1, <<"O", "C", "C", "U", "R", "S">>, DigitSet))

\* COMP_PATTERN.search(rest): (COMP(?:-[1-5])?), group 1 or None.
RECURSIVE COMP_PATTERN(_, _)
COMP_PATTERN(rest, p) ==
    IF p > Len(rest) THEN None
    ELSE IF MatchLit(rest, p, <<"C", "O", "M", "P">>) # 0
         THEN CompAt(rest, MatchLit(rest, p, <<"C", "O", "M", "P">>))
    ELSE COMP_PATTERN(rest, p + 1)

\* The position after an optional (?:\(\d+\)) at q.
AfterParen(s, q) == IF MatchParenInt(s, q).end # 0 THEN MatchParenInt(s, q).end ELSE q

\* (?:V([9]+(?:\(\d+\))?))? at v, with n the position after the run of 9:
\* the text of group 3, "" when the group matches nothing.
DecimalPart(s, v, n) ==
    IF At(s, v) = "V" /\ n > v + 1 THEN SubSeq(s, v + 1, AfterParen(s, n) - 1)
    ELSE <<>>

NoPic == [matched |-> FALSE, sign |-> <<>>, integer_part |-> <<>>,
          decimal_part |-> <<>>]

\* The groups of a match whose integer part is s[b .. e-1].
PicWithInt(s, b, sign, e) ==
    [matched |-> TRUE, sign |-> sign, integer_part |-> SubSeq(s, b, e - 1),
     decimal_part |-> DecimalPart(s, e, SkipRun(s, e + 1, {"9"}))]

\* ([XA9]+(?:\(\d+\))?) at b, with r the position after the run of [XA9].
PicRun(s, b, sign, r) ==
    IF r = b THEN NoPic ELSE PicWithInt(s, b, sign, AfterParen(s, r))

PicBody(s, b, sign) == PicRun(s, b, sign, SkipRun(s, b, {"X", "A", "9"}))

\* (S)? and the rest at c, the position after PIC(?:TURE)?\s+ (0: no match).
PicSigned(s, c) ==
    IF c = 0 THEN NoPic
    ELSE IF At(s, c) = "S" THEN PicBody(s, c + 1, <<"S">>)
    ELSE PicBody(s, c, <<>>)

\* (?:TURE)?\s+ at a, the position after PIC (0: no match).
PicKeyword(s, a) ==
    IF a = 0 THEN 0
    ELSE IF MatchWs(s, MatchLit(s, a, <<"T", "U", "R", "E">>)) # 0
         THEN MatchWs(s, MatchLit(s, a, <<"T", "U", "R", "E">>))
    ELSE MatchWs(s, a)

\* CopybookParser.PIC_PATTERN at the position p:
\* PIC(?:TURE)?\s+(S)?([XA9]+(?:\(\d+\))?)(?:V([9]+(?:\(\d+\))?))?
PicAt(s, p) == PicSigned(s, PicKeyword(s, MatchLit(s, p, <<"P", "I", "C">>)))

\* CopybookParser.PIC_PATTERN.search(rest)
RECURSIVE SearchPic(_, _)
SearchPic(rest, p) ==
    IF p > Len(rest) THEN NoPic
    ELSE IF PicAt(rest, p).matched THEN PicAt(rest, p)
    ELSE SearchPic(rest, p + 1)

\* "Reconstruct PIC clause" and "Check for COMP modifier"; <<>> is None.
PicClauseOf(pic, comp) ==
    IF ~pic.matched THEN <<>>
    ELSE <<"P", "I", "C", " ">> \o pic.sign \o pic.integer_part
         \o (IF pic.decimal_part # <<>> THEN <<"V">> \o pic.decimal_part ELSE <<>>)
         \o (IF comp # None THEN <<" ">> \o UsageText(comp) ELSE <<>>)

\* CopybookField(...) of the match m of LEVEL_PATTERN. Names are kept as
\* text; a redefines of <<>> is None.
TextField(m, pc) ==
    [name |-> m.name,
     level |-> m.level,
     pic_clause |-> pc,
     length |-> 0,
     offset |-> 0,
     is_filler |-> m.name = <<"F", "I", "L", "L", "E", "R">>,
     is_group |-> pc = <<>> /\ m.name # <<"F", "I", "L", "L", "E", "R">>,
     occurs |-> OCCURS_PATTERN(m.rest),
     redefines |-> REDEFINES_PATTERN(m.rest),
     parent |-> <<>>,
     children |-> <<>>]

ParseLevel(m) ==
    IF ~m.matched \/ m.level \in {66, 88} THEN NoField
    ELSE TextField(m, PicClauseOf(SearchPic(m.rest, 1), COMP_PATTERN(m.rest, 1)))

\* CopybookParser._parse_line on the text of a statement in upper case (on
\* which name.upper() changes nothing).
parse_text_line(line) == ParseLevel(LEVEL_PATTERN(RStripSet(line, {"."})))

\* for line in lines: field = self._parse_line(line)
RECURSIVE ParseLines(_)
ParseLines(ls) ==
    IF ls = <<>> THEN <<>>
    ELSE <<parse_text_line(ls[1])>> \o ParseLines(Tail(ls))

\* ------------------------------------------------ copybook text: inputs
\* Columns 1-6 and the indicator column of a line.
Margin(indicator) == <<" ", " ", " ", " ", " ", " ", indicator>>

\* The texts written from column 8 on.
LineTexts ==
    { <<"0", "5", " ", "A">>,
      <<" ", "P", "I", "C", " ", "X", "(", "4", ")", ".">>,
      <<"0", "5", " ", "A", " ", "P", "I", "C", " ", "X", "(", "4", ")", ".">>,
      <<"0", "5", " ", "B", " ", "P", "I", "C", " ", "S", "9", "(", "3", ")",
        "V", "9", "9", " ", "C", "O", "M", "P", "-", "3", ".">>,
      <<"0", "5", " ", "G", " ", "O", "C", "C", "U", "R", "S", " ", "2", ".">>,
      <<"0", "5", " ", "C", " ", "R", "E", "D", "E", "F", "I", "N", "E", "S",
        " ", "A", " ", "*", "X">> }

\* The lines of contents: a text behind a blank or a continuation indicator,
\* a comment line, a blank line, and a line shorter than 7 characters.
SourceLines ==
    { Margin(i) \o t : i \in {" ", "-"}, t \in LineTexts }
    \cup { Margin("*") \o <<" ", "N", "O", "T", "E", ".">>, <<" ", " ">>,
           <<"0", "1", " ", "R", ".">> }

Contents == UNION { [1..n -> SourceLines] : n \in 0..MaxLines }

InitClean ==
    /\ PicIdle
    /\ CopybookIdle
    /\ DecodeIdle
    /\ DdlIdle
    /\ Db2Idle
    /\ DclIdle
    /\ LateIdle
    /\ content \in Contents
    /\ clean_op = "none"
    /\ lines = <<>>
    /\ line_fields = <<>>

\* lines = self._clean_content(content)
CleanContent ==
    /\ clean_op = "none"
    /\ clean_op' = "_clean_content"
    /\ lines' = clean_content(content)
    /\ UNCHANGED <<content, line_fields, picVars, cbVars, decVars, ddlVars, db2Vars, dclVars, lateVars>>

\* field = self._parse_line(line) for every line of lines
ParseCleanedLines ==
    /\ clean_op = "_clean_content"
    /\ clean_op' = "_parse_line"
    /\ line_fields' = ParseLines(lines)
    /\ UNCHANGED <<content, lines, picVars, cbVars, decVars, ddlVars, db2Vars, dclVars, lateVars>>

NextClean == CleanContent \/ ParseCleanedLines

SpecClean == InitClean /\ [][NextClean]_vars
\* ------------------------------------------------------ DB2 DDL: patterns
\* Largest number of items between the parentheses of a CREATE TABLE.
MaxItems == 3

Letters ==
    {"A", "B", "C", "D", "E", "F", "G", "H", "I", "J", "K", "L", "M", "N", "O", "P",
     "Q", "R", "S", "T", "U", "V", "W", "X", "Y", "Z"}

LowerChars ==
    <<"a", "b", "c", "d", "e", "f", "g", "h", "i", "j", "k", "l", "m", "n", "o", "p",
      "q", "r", "s", "t", "u", "v", "w", "x", "y", "z">>

UpperChars ==
    <<"A", "B", "C", "D", "E", "F", "G", "H", "I", "J", "K", "L", "M", "N", "O", "P",
      "Q", "R", "S", "T", "U", "V", "W", "X", "Y", "Z">>

LowerSet == {LowerChars[k] : k \in 1..26}

\* s.upper()
Upper(s) ==
    [i \in 1..Len(s) |->
        IF s[i] \in LowerSet
        THEN UpperChars[CHOOSE k \in 1..26 : LowerChars[k] = s[i]]
        ELSE s[i]]

\* The characters of \w.
WordChars == Letters \cup {LowerChars[k] : k \in 1..26} \cup DigitSet \cup {"_"}

\* The characters of \s.
WhiteSpace == {" ", "\n"}

\* A literal under re.IGNORECASE: position after lit at p, else 0.
MatchLitI(s, p, lit) ==
    IF p >= 1 /\ p + Len(lit) - 1 <= Len(s) /\ Upper(SubSeq(s, p, p + Len(lit) - 1)) = lit
    THEN p + Len(lit) ELSE 0

\* Position of the first character of set stops at or after p, Len(s) + 1
\* when there is none: the end of a greedy  [^stops]*.
RECURSIVE SkipUntil(_, _, _)
SkipUntil(s, p, stops) ==
    IF p >= 1 /\ p <= Len(s) /\ s[p] \notin stops THEN SkipUntil(s, p + 1, stops) ELSE p

\* \s*\(  at p: the position after the parenthesis, else 0.
OpenParen(s, p) == MatchLit(s, SkipRun(s, p, WhiteSpace), <<"(">>)

NoGroup == [end |-> 0, text |-> <<>>]

GroupAt(s, q, e) ==
    IF q # 0 /\ e > q /\ At(s, e) = ")"
    THEN [end |-> e + 1, text |-> SubSeq(s, q, e - 1)]
    ELSE NoGroup

\* ([^)]+)\)  at q, the position after a "(": the position after the ")" and
\* the text captured, end = 0 when it does not match.
GroupFrom(s, q) == GroupAt(s, q, SkipUntil(s, q, {")"}))

\* s.split(",")
RECURSIVE SplitComma(_)
SplitComma(s) ==
    IF SkipUntil(s, 1, {","}) > Len(s) THEN <<s>>
    ELSE <<SubSeq(s, 1, SkipUntil(s, 1, {","}) - 1)>>
         \o SplitComma(SubSeq(s, SkipUntil(s, 1, {","}) + 1, Len(s)))

\* s.strip() on white space.
StripWs(s) == RStripSet(SubSeq(s, SkipRun(s, 1, WhiteSpace), Len(s)), WhiteSpace)

\* Position of the first occurrence of lit in s at or after p, else 0.
FindLit(s, p, lit) ==
    IF \E q \in p..Len(s) : MatchLit(s, q, lit) # 0
    THEN CHOOSE q \in p..Len(s) :
            MatchLit(s, q, lit) # 0 /\ \A r \in p..(q - 1) : MatchLit(s, r, lit) = 0
    ELSE 0

\* re.sub(r"--.*$", "", content, flags=re.MULTILINE): each comment goes, up
\* to the end of its line.
RECURSIVE DropLineComments(_)
DropLineComments(s) ==
    IF FindLit(s, 1, <<"-", "-">>) = 0 THEN s
    ELSE SubSeq(s, 1, FindLit(s, 1, <<"-", "-">>) - 1)
         \o DropLineComments(SubSeq(s, SkipUntil(s, FindLit(s, 1, <<"-", "-">>), {"\n"}),
                                    Len(s)))

\* re.sub(r"/\*.*?\*/", "", content, flags=re.DOTALL): each comment goes, up
\* to the first "*/" behind its "/*".
RECURSIVE DropBlockComments(_)
DropBlockComments(s) ==
    IF FindLit(s, 1, <<"/", "*">>) = 0
       \/ FindLit(s, FindLit(s, 1, <<"/", "*">>) + 2, <<"*", "/">>) = 0
    THEN s
    ELSE SubSeq(s, 1, FindLit(s, 1, <<"/", "*">>) - 1)
         \o DropBlockComments(
                SubSeq(s, FindLit(s, FindLit(s, 1, <<"/", "*">>) + 2, <<"*", "/">>) + 2,
                       Len(s)))

\* " ".join(words) for the words of s.split(), s without leading white space.
RECURSIVE JoinWords(_)
JoinWords(s) ==
    IF s = <<>> THEN <<>>
    ELSE IF SkipRun(s, SkipUntil(s, 1, WhiteSpace), WhiteSpace) > Len(s)
         THEN SubSeq(s, 1, SkipUntil(s, 1, WhiteSpace) - 1)
    ELSE SubSeq(s, 1, SkipUntil(s, 1, WhiteSpace) - 1) \o <<" ">>
         \o JoinWords(SubSeq(s, SkipRun(s, SkipUntil(s, 1, WhiteSpace), WhiteSpace), Len(s)))

\* DDLParser._clean_content
ddl_clean_content(s) ==
    JoinWords(SubSeq(DropBlockComments(DropLineComments(s)),
                     SkipRun(DropBlockComments(DropLineComments(s)), 1, WhiteSpace),
                     Len(DropBlockComments(DropLineComments(s)))))

\* Position of the last ")" of s at or after p, else 0: where the greedy
\* (.*)  before  \)  ends.
RECURSIVE LastClose(_, _, _)
LastClose(s, p, e) ==
    IF p = 0 \/ e < p THEN 0 ELSE IF s[e] = ")" THEN e ELSE LastClose(s, p, e - 1)

NoCreate == [matched |-> FALSE, schema |-> <<>>, name |-> <<>>, columns |-> <<>>]

\* \s*\((.*)\)  after the table name, open the position after the "(".
CreateBody(s, schema, name, open) ==
    IF open # 0 /\ LastClose(s, open, Len(s)) # 0
    THEN [matched |-> TRUE, schema |-> schema, name |-> name,
          columns |-> SubSeq(s, open, LastClose(s, open, Len(s)) - 1)]
    ELSE NoCreate

\* (?:(\w+)\.)?(\w+)  at p, w the end of the first word and w2 the end of
\* the word after a period.
CreateNames(s, p, w, w2) ==
    IF p = 0 \/ w = p THEN NoCreate
    ELSE IF At(s, w) = "." /\ w2 > w + 1
            /\ CreateBody(s, SubSeq(s, p, w - 1), SubSeq(s, w + 1, w2 - 1),
                          OpenParen(s, w2)).matched
         THEN CreateBody(s, SubSeq(s, p, w - 1), SubSeq(s, w + 1, w2 - 1),
                         OpenParen(s, w2))
    ELSE CreateBody(s, <<>>, SubSeq(s, p, w - 1), OpenParen(s, w))

CreateFrom(s, p) ==
    CreateNames(s, p, SkipRun(s, p, WordChars),
                SkipRun(s, SkipRun(s, p, WordChars) + 1, WordChars))

\* CREATE_TABLE_PATTERN matched at position i.
CreateAt(s, i) ==
    CreateFrom(s, MatchWs(s, MatchLitI(s, MatchWs(s, MatchLitI(s, i, <<"C", "R", "E", "A",
        "T", "E">>)), <<"T", "A", "B", "L", "E">>)))

\* CREATE_TABLE_PATTERN.search(content): the leftmost match.
RECURSIVE CreateSearch(_, _)
CreateSearch(s, i) ==
    IF i > Len(s) THEN NoCreate
    ELSE IF CreateAt(s, i).matched THEN CreateAt(s, i)
    ELSE CreateSearch(s, i + 1)

CREATE_TABLE_PATTERN(s) == CreateSearch(s, 1)

\* paren_depth when the loop of _split_columns reaches the character i of s.
ParenDepth(s, i) ==
    Cardinality({j \in 1..(i - 1) : s[j] = "("})
    - Cardinality({j \in 1..(i - 1) : s[j] = ")"})

\* Position of the first comma at or after p read with paren_depth = 0,
\* Len(s) + 1 when there is none.
NextComma(s, p) ==
    IF \E q \in p..Len(s) : s[q] = "," /\ ParenDepth(s, q) = 0
    THEN CHOOSE q \in p..Len(s) :
            /\ s[q] = "," /\ ParenDepth(s, q) = 0
            /\ \A r \in p..(q - 1) : ~(s[r] = "," /\ ParenDepth(s, r) = 0)
    ELSE Len(s) + 1

\* The loop of _split_columns from the character p of s on, current empty:
\* the parts appended at the commas, and what is left behind the last one.
RECURSIVE SplitLoop(_, _)
SplitLoop(s, p) ==
    IF NextComma(s, p) > Len(s)
    THEN IF StripWs(SubSeq(s, p, Len(s))) # <<>> THEN <<StripWs(SubSeq(s, p, Len(s)))>>
         ELSE <<>>
    ELSE <<StripWs(SubSeq(s, p, NextComma(s, p) - 1))>> \o SplitLoop(s, NextComma(s, p) + 1)

split_columns(s) == SplitLoop(s, 1)

\* PRIMARY\s+KEY  or  FOREIGN\s+KEY  at the start of part: the position
\* after KEY, else 0.
KeyHead(part, word) == MatchLitI(part, MatchWs(part, MatchLitI(part, 1, word)), <<"K", "E", "Y">>)

\* PRIMARY_KEY_PATTERN.match(part): the group  ([^)]+)  and its end.
PRIMARY_KEY_PATTERN(part) == GroupFrom(part, OpenParen(part, KeyHead(part, <<"P", "R", "I",
    "M", "A", "R", "Y">>)))

NoForeignKey == [matched |-> FALSE, fk_col |-> <<>>, ref |-> <<>>]

\* (\w+(?:\.\w+)?)\s*\(([^)]+)\)  at r, w1 the end of the first word.
ForeignTarget(part, cols, r, w1, w2) ==
    IF r = 0 \/ w1 = r THEN NoForeignKey
    ELSE IF At(part, w1) = "." /\ w2 > w1 + 1
         THEN IF GroupFrom(part, OpenParen(part, w2)).end # 0
              THEN [matched |-> TRUE, fk_col |-> StripWs(cols.text),
                    ref |-> SubSeq(part, r, w2 - 1) \o <<".">>
                            \o StripWs(GroupFrom(part, OpenParen(part, w2)).text)]
              ELSE NoForeignKey
    ELSE IF GroupFrom(part, OpenParen(part, w1)).end # 0
         THEN [matched |-> TRUE, fk_col |-> StripWs(cols.text),
               ref |-> SubSeq(part, r, w1 - 1) \o <<".">>
                       \o StripWs(GroupFrom(part, OpenParen(part, w1)).text)]
    ELSE NoForeignKey

\* \s*REFERENCES\s+  after the column group cols, and the referenced table.
ForeignReferences(part, cols, r) ==
    ForeignTarget(part, cols, r, SkipRun(part, r, WordChars),
                  SkipRun(part, SkipRun(part, r, WordChars) + 1, WordChars))

ForeignColumns(part, cols) ==
    ForeignReferences(part, cols,
        MatchWs(part, MatchLitI(part, SkipRun(part, cols.end, WhiteSpace), <<"R", "E", "F",
            "E", "R", "E", "N", "C", "E", "S">>)))

\* \s+(\w+)\s*\(([^)]+)\)  after KEY: k the position after the white space,
\* w the end of the constraint name.
ForeignName(part, k, w) ==
    IF k = 0 \/ w = k THEN NoForeignKey
    ELSE ForeignColumns(part, GroupFrom(part, OpenParen(part, w)))

ForeignFrom(part, k) == ForeignName(part, k, SkipRun(part, k, WordChars))

\* FOREIGN_KEY_PATTERN.match(part) with fk_col = group(2).strip() and the
\* reference  f"{ref_table}.{ref_col}".
FOREIGN_KEY_PATTERN(part) == ForeignFrom(part, MatchWs(part, KeyHead(part, <<"F", "O", "R",
    "E", "I", "G", "N">>)))

\* part.upper().startswith(("CONSTRAINT", "UNIQUE", "CHECK", "INDEX"))
OtherConstraint(part) ==
    \E w \in {<<"C", "O", "N", "S", "T", "R", "A", "I", "N", "T">>, <<"U", "N", "I", "Q", "U",
        "E">>, <<"C", "H", "E", "C", "K">>, <<"I", "N", "D", "E", "X">>} : MatchLitI(part, 1, w) # 0

\* (?:\s*\([^)]+\))?  at p: the position after the group.
OptParen(s, p) ==
    IF GroupFrom(s, OpenParen(s, p)).end # 0 THEN GroupFrom(s, OpenParen(s, p)).end ELSE p

\* \s+A\s+B(\s+C)  at p for the words ws: the position after them, 0 when
\* they are not there.
RECURSIVE MatchWords(_, _, _)
MatchWords(s, p, ws) ==
    IF ws = <<>> \/ p = 0 THEN p
    ELSE MatchWords(s, MatchLitI(s, MatchWs(s, p), ws[1]), Tail(ws))

\* An optional group of words at p: the position after it.
OptWords(s, p, ws) == IF MatchWords(s, p, ws) # 0 THEN MatchWords(s, p, ws) ELSE p

\* (\s+WITH\s+DEFAULT\s+[^,]+)?  at p, d the position after the white space
\* behind DEFAULT: the default value, <<>> for None.
DefaultValue(s, d) ==
    IF d # 0 /\ SkipUntil(s, d, {","}) > d
    THEN StripWs(SubSeq(s, d, SkipUntil(s, d, {","}) - 1))
    ELSE <<>>

\* The column of a match whose name ends before n, whose type runs from t to
\* e and whose NOT NULL group ends at q.
DDLColumn(s, n, t, e, q) ==
    [name |-> Upper(SubSeq(s, 1, n - 1)),
     data_type |-> Upper(StripWs(SubSeq(s, t, e - 1))),
     nullable |-> q = e,
     default_value |-> DefaultValue(s, MatchWs(s, MatchWords(s, q, <<<<"W", "I", "T",
         "H">>, <<"D", "E", "F", "A", "U", "L", "T">>>>))),
     is_primary_key |-> FALSE,
     foreign_key_ref |-> <<>>]

ColumnType(s, n, t, e) == DDLColumn(s, n, t, e, OptWords(s, e, <<<<"N", "O", "T">>, <<"N",
    "U", "L", "L">>>>))

\* ([A-Z]+(?:\s*\([^)]+\))?(?:\s+FOR\s+BIT\s+DATA)?)  at t, a the end of the
\* letters.
ColumnLetters(s, n, t, a) ==
    IF t = 0 \/ a = t THEN NoResult
    ELSE ColumnType(s, n, t, OptWords(s, OptParen(s, a), <<<<"F", "O", "R">>, <<"B", "I",
        "T">>, <<"D", "A", "T", "A">>>>))

ColumnName(s, n, t) ==
    IF n = 1 THEN NoResult ELSE ColumnLetters(s, n, t, SkipRun(Upper(s), t, Letters))

\* DDLParser._parse_column: COLUMN_PATTERN.match(column_def) and the column
\* made of its groups, NoResult for None.
parse_column(s) ==
    ColumnName(s, SkipRun(s, 1, WordChars), MatchWs(s, SkipRun(s, 1, WordChars)))

\* foreign_keys[fk_col] = ref
DictSet(d, k, v) ==
    IF \E i \in 1..Len(d) : d[i].key = k
    THEN [i \in 1..Len(d) |-> IF d[i].key = k THEN [key |-> k, value |-> v] ELSE d[i]]
    ELSE Append(d, [key |-> k, value |-> v])

DictHas(d, k) == \E i \in 1..Len(d) : d[i].key = k

DictGet(d, k) == d[CHOOSE i \in 1..Len(d) : d[i].key = k].value

\* One iteration of the loop over parts on t = [columns, primary_key,
\* foreign_keys].
ParsePart(t, part) ==
    IF part = <<>> THEN t
    ELSE IF PRIMARY_KEY_PATTERN(part).end # 0
         THEN [t EXCEPT !.primary_key =
                  [i \in 1..Len(SplitComma(PRIMARY_KEY_PATTERN(part).text)) |->
                      StripWs(SplitComma(PRIMARY_KEY_PATTERN(part).text)[i])]]
    ELSE IF FOREIGN_KEY_PATTERN(part).matched
         THEN [t EXCEPT !.foreign_keys =
                  DictSet(@, FOREIGN_KEY_PATTERN(part).fk_col, FOREIGN_KEY_PATTERN(part).ref)]
    ELSE IF OtherConstraint(part) THEN t
    ELSE IF parse_column(part) # NoResult
         THEN [t EXCEPT !.columns = Append(@, parse_column(part))]
    ELSE t

RECURSIVE ParseParts(_)
ParseParts(parts) ==
    IF parts = <<>> THEN [columns |-> <<>>, primary_key |-> <<>>, foreign_keys |-> <<>>]
    ELSE ParsePart(ParseParts(SubSeq(parts, 1, Len(parts) - 1)), parts[Len(parts)])

\* "Update primary key and foreign key flags on columns"
UpdateFlags(t) ==
    [i \in 1..Len(t.columns) |->
        [t.columns[i] EXCEPT
            !.is_primary_key =
                \E k \in 1..Len(t.primary_key) : t.primary_key[k] = t.columns[i].name,
            !.foreign_key_ref =
                IF DictHas(t.foreign_keys, t.columns[i].name)
                THEN DictGet(t.foreign_keys, t.columns[i].name) ELSE <<>>]]

\* The DDLTable of a match m and the parts parsed into t.
DDLTable(m, t) ==
    [schema |-> IF m.schema = <<>> THEN <<"D", "B", "O">> ELSE m.schema,
     name |-> m.name,
     columns |-> UpdateFlags(t),
     primary_key |-> t.primary_key,
     foreign_keys |-> t.foreign_keys]

\* DDLParser.parse_content on a cleaned content: the table, or ValueError
\* when there is no CREATE TABLE statement.
ParseCleaned(m) ==
    IF m.matched THEN DDLTable(m, ParseParts(split_columns(m.columns))) ELSE ValueError

ddl_parse_content(s) == ParseCleaned(CREATE_TABLE_PATTERN(ddl_clean_content(s)))

\* ------------------------------------------------------ DB2 DDL: the inputs
\* The items of a CREATE TABLE as its author declares them.
ColumnItem(name, sql_type, bit, not_null, default) ==
    [kind |-> "column", name |-> name, sql_type |-> sql_type, bit |-> bit,
     not_null |-> not_null, default |-> default, names |-> <<>>,
     ref_table |-> <<>>, ref_names |-> <<>>]

\* PRIMARY KEY ( names )
PrimaryKeyItem(names) ==
    [kind |-> "pk", name |-> <<>>, sql_type |-> <<>>, bit |-> FALSE,
     not_null |-> FALSE, default |-> <<>>, names |-> names,
     ref_table |-> <<>>, ref_names |-> <<>>]

\* FOREIGN KEY [name] ( names ) REFERENCES ref_table ( ref_names )
ForeignKeyItem(name, names, ref_table, ref_names) ==
    [kind |-> "fk", name |-> name, sql_type |-> <<>>, bit |-> FALSE,
     not_null |-> FALSE, default |-> <<>>, names |-> names,
     ref_table |-> ref_table, ref_names |-> ref_names]

\* An item the parser is to skip, written as sql_type.
OtherItem(text) ==
    [kind |-> "other", name |-> <<>>, sql_type |-> text, bit |-> FALSE,
     not_null |-> FALSE, default |-> <<>>, names |-> <<>>,
     ref_table |-> <<>>, ref_names |-> <<>>]

DdlItems ==
    { ColumnItem(<<"K">>, <<"I", "N", "T", "E", "G", "E", "R">>, FALSE, TRUE, <<>>),
      ColumnItem(<<"V">>, <<"D", "E", "C", "I", "M", "A", "L", "(", "1", "5", ",", "2",
          ")">>, FALSE, FALSE, <<>>),
      ColumnItem(<<"D">>, <<"D", "O", "U", "B", "L", "E", " ", "P", "R", "E", "C", "I", "S",
          "I", "O", "N">>, FALSE, TRUE, <<>>),
      ColumnItem(<<"B">>, <<"C", "H", "A", "R", "(", "4", ")">>, TRUE, TRUE, <<"'", "x", "'">>),
      PrimaryKeyItem(<<<<"K">>>>),
      PrimaryKeyItem(<<<<"V">>, <<"K">>>>),
      ForeignKeyItem(<<>>, <<<<"V">>>>, <<"S", ".", "P">>, <<<<"I", "D">>>>),
      ForeignKeyItem(<<"F", "K", "1">>, <<<<"V">>>>, <<"S", ".", "P">>, <<<<"I", "D">>>>),
      OtherItem(<<"C", "O", "N", "S", "T", "R", "A", "I", "N", "T", " ", "U", " ", "U", "N",
          "I", "Q", "U", "E", " ", "(", "K", ")">>) }

\* ", ".join(names)
RECURSIVE JoinNames(_)
JoinNames(names) ==
    IF names = <<>> THEN <<>>
    ELSE IF Len(names) = 1 THEN names[1]
    ELSE names[1] \o <<",", " ">> \o JoinNames(Tail(names))

\* The text of an item.
RenderItem(it) ==
    IF it.kind = "column"
    THEN it.name \o <<" ">> \o it.sql_type
         \o (IF it.bit THEN <<" ", "F", "O", "R", " ", "B", "I", "T", " ", "D", "A", "T",
             "A">> ELSE <<>>)
         \o (IF it.not_null THEN <<" ", "N", "O", "T", " ", "N", "U", "L", "L">> ELSE <<>>)
         \o (IF it.default # <<>> THEN <<" ", "W", "I", "T", "H", " ", "D", "E", "F", "A",
             "U", "L", "T", " ">> \o it.default ELSE <<>>)
    ELSE IF it.kind = "pk" THEN <<"P", "R", "I", "M", "A", "R", "Y", " ", "K", "E", "Y",
        "(">> \o JoinNames(it.names) \o <<")">>
    ELSE IF it.kind = "fk"
         THEN <<"F", "O", "R", "E", "I", "G", "N", " ", "K", "E", "Y",
             " ">> \o (IF it.name # <<>> THEN it.name \o <<" ">> ELSE <<>>)
              \o <<"(">> \o JoinNames(it.names) \o <<")", " ", "R", "E", "F", "E", "R", "E",
                  "N", "C", "E", "S", " ">> \o it.ref_table
              \o <<" ", "(">> \o JoinNames(it.ref_names) \o <<")">>
    ELSE it.sql_type

\* What comes before the items: a qualified name, a bare name, and a name
\* among comments.
DdlHeaders ==
    { <<"C", "R", "E", "A", "T", "E", " ", "T", "A", "B", "L", "E", " ", "S", ".", "T", " ",
        "(">>, <<"c", "r", "e", "a", "t", "e", " ", "t", "a", "b", "l", "e", " ", "T",
        "(">>, <<"-", "-", " ", "D", "D", "L", "\n", "C", "R", "E", "A", "T", "E", " ", "T",
        "A", "B", "L", "E", " ", "S", ".", "T", " ", "/", "*", " ", "t", " ", "*", "/", " ", "(">> }

RenderTable(header, items) ==
    header \o JoinNames([i \in 1..Len(items) |-> RenderItem(items[i])]) \o <<")">>

\* Item lists with at most one PRIMARY KEY item.
DdlItemLists ==
    { l \in UNION { [1..n -> DdlItems] : n \in 1..MaxItems } :
        Cardinality({i \in 1..Len(l) : l[i].kind = "pk"}) <= 1 }

InitDdl ==
    /\ PicIdle
    /\ CopybookIdle
    /\ DecodeIdle
    /\ CleanIdle
    /\ Db2Idle
    /\ DclIdle
    /\ LateIdle
    /\ \/ /\ ddl_items \in DdlItemLists
          /\ \E h \in DdlHeaders : ddl_content = RenderTable(h, ddl_items)
       \/ /\ ddl_items = <<>>
          /\ ddl_content \in {<<"D", "R", "O", "P", " ", "T", "A", "B", "L", "E", " ", "S",
              ".", "T">>, <<"C", "R", "E", "A", "T", "E", " ", "T", "A", "B", "L", "E", " ",
              "S", ".", "T">>}
    /\ ddl_op = "none"
    /\ table = NoResult

\* table = parser.parse_content(content)
DdlParseContent ==
    /\ ddl_op = "none"
    /\ ddl_content # <<>>
    /\ table' = ddl_parse_content(ddl_content)
    /\ ddl_op' = IF IsError(ddl_parse_content(ddl_content)) THEN "ValueError"
                 ELSE "parse_content"
    /\ UNCHANGED <<ddl_items, ddl_content, picVars, cbVars, decVars, cleanVars, db2Vars, dclVars, lateVars>>

NextDdl == DdlParseContent

SpecDdl == InitDdl /\ [][NextDdl]_vars
\* ------------------------------------------------------- DB2 type converter
\* Largest precision, scale or length written in a type of the inputs.
MaxParam == 3

\* "lit in s"
Contains(s, lit) == FindLit(s, 1, lit) # 0

\* s.replace(lit, "")
RECURSIVE Remove(_, _)
Remove(s, lit) ==
    IF FindLit(s, 1, lit) = 0 THEN s
    ELSE SubSeq(s, 1, FindLit(s, 1, lit) - 1)
         \o Remove(SubSeq(s, FindLit(s, 1, lit) + Len(lit), Len(s)), lit)

\* s.replace(" ", "_")
Underscored(s) == [i \in 1..Len(s) |-> IF s[i] = " " THEN "_" ELSE s[i]]

NoParams == [end |-> 0, first |-> <<>>, second |-> <<>>]

\* \s*\)  at c, behind the parameters first and second.
ParamsClose(s, c, first, second) ==
    IF MatchLit(s, SkipRun(s, c, WhiteSpace), <<")">>) # 0
    THEN [end |-> MatchLit(s, SkipRun(s, c, WhiteSpace), <<")">>),
          first |-> first, second |-> second]
    ELSE NoParams

\* (?:,\s*(\d+))?  at c, d the position after the comma and the white space
\* behind it.
ParamsSecond(s, c, first, d) ==
    IF d # 0 /\ SkipRun(s, d, DigitSet) > d
    THEN ParamsClose(s, SkipRun(s, d, DigitSet), first, SubSeq(s, d, SkipRun(s, d, DigitSet) - 1))
    ELSE ParamsClose(s, c, first, <<>>)

\* (\d+)\s*  from a to b, and what follows it; two is FALSE for the patterns
\* with one parameter.
ParamsFirst(s, a, b, two) ==
    IF a = 0 \/ b = a THEN NoParams
    ELSE IF two
         THEN ParamsSecond(s, SkipRun(s, b, WhiteSpace), SubSeq(s, a, b - 1),
                  SkipRun(s, MatchLit(s, SkipRun(s, b, WhiteSpace), <<",">>), WhiteSpace))
    ELSE ParamsClose(s, b, SubSeq(s, a, b - 1), <<>>)

ParamsFrom(s, a, two) == ParamsFirst(s, a, SkipRun(s, a, DigitSet), two)

\* \s*\(\s*(\d+)\s*(?:,\s*(\d+))?\s*\)  at p, the second parameter read only
\* when two: [end, first, second], end = 0 when it does not match.
Params(s, p, two) == ParamsFrom(s, SkipRun(s, OpenParen(s, p), WhiteSpace), two)

\* A name of one or more words, \s+ between them, at the start of s: the
\* position after it, else 0.
NameEnd(s, words) == MatchWords(s, MatchLitI(s, 1, words[1]), Tail(words))

\* The first of the alternatives names that s starts with and that Params
\* follows: 0 when there is none.
FirstName(s, names, two) ==
    IF \E i \in 1..Len(names) : Params(s, NameEnd(s, names[i]), two).end # 0
    THEN CHOOSE i \in 1..Len(names) :
            /\ Params(s, NameEnd(s, names[i]), two).end # 0
            /\ \A j \in 1..(i - 1) : Params(s, NameEnd(s, names[j]), two).end = 0
    ELSE 0

\* match.group(1).upper().replace(" ", "_")  for the name found.
BaseName(s, names, two) ==
    Underscored(Upper(SubSeq(s, 1, NameEnd(s, names[FirstName(s, names, two)]) - 1)))

ParsedDB2Type(base_type, category, prec, sc, len, is_nullable, is_for_bit_data) ==
    [base_type |-> base_type, category |-> category, precision |-> prec,
     scale |-> sc, length |-> len, is_nullable |-> is_nullable,
     is_for_bit_data |-> is_for_bit_data]

DecimalNames == <<<<<<"D", "E", "C", "I", "M", "A", "L">>>>, <<<<"D", "E", "C">>>>, <<<<"N",
    "U", "M", "E", "R", "I", "C">>>>>>

\* (DECIMAL|DEC|NUMERIC)\s*\(\s*(\d+)\s*(?:,\s*(\d+))?\s*\)
DECIMAL_PATTERN(s) ==
    IF FirstName(s, DecimalNames, TRUE) = 0 THEN NoParams
    ELSE Params(s, NameEnd(s, DecimalNames[FirstName(s, DecimalNames, TRUE)]), TRUE)

\* DECFLOAT\s*\(\s*(\d+)\s*\)
DECFLOAT_PATTERN(s) == Params(s, MatchLitI(s, 1, <<"D", "E", "C", "F", "L", "O", "A", "T">>), FALSE)

\* The names of CHAR_PATTERN, GRAPHIC_PATTERN and BINARY_PATTERN.
CharNames == <<<<<<"C", "H", "A", "R">>>>, <<<<"C", "H", "A", "R", "A", "C", "T", "E",
    "R">>>>, <<<<"V", "A", "R", "C", "H", "A", "R">>>>, <<<<"L", "O", "N", "G">>, <<"V", "A",
    "R", "C", "H", "A", "R">>>>>>

GraphicNames == <<<<<<"G", "R", "A", "P", "H", "I", "C">>>>, <<<<"V", "A", "R", "G", "R", "A",
    "P", "H", "I", "C">>>>, <<<<"L", "O", "N", "G">>, <<"V", "A", "R", "G", "R", "A", "P",
    "H", "I", "C">>>>>>

BinaryNames == <<<<<<"B", "I", "N", "A", "R", "Y">>>>, <<<<"V", "A", "R", "B", "I", "N", "A",
    "R", "Y">>>>>>

\* The length of a match of one of the three: int(match.group(2)).
NamedLength(s, names) ==
    IntOfStr(Params(s, NameEnd(s, names[FirstName(s, names, FALSE)]), FALSE).first)

LobNames == <<<<"B", "L", "O", "B">>, <<"C", "L", "O", "B">>, <<"D", "B", "C", "L", "O", "B">>>>

\* The first name of LOB_PATTERN that s starts with, 0 when there is none.
LobName(s) ==
    IF \E i \in 1..3 : MatchLitI(s, 1, LobNames[i]) # 0
    THEN CHOOSE i \in 1..3 : MatchLitI(s, 1, LobNames[i]) # 0
    ELSE 0

\* \s*([KMG])?\s*\)  at b behind the size: the multiplier, 0 when the group
\* in parentheses does not match.
LobUnit(s, c) ==
    IF At(s, c) \in {"K", "M", "G"} /\ MatchLit(s, SkipRun(s, c + 1, WhiteSpace), <<")">>) # 0
    THEN IF s[c] = "K" THEN 1024 ELSE IF s[c] = "M" THEN 1048576 ELSE 1073741824
    ELSE IF MatchLit(s, c, <<")">>) # 0 THEN 1
    ELSE 0

\* (?:\(\s*(\d+)\s*([KMG])?\s*\))?  from a, the position after "(" and the
\* white space, to b: size * multiplier, 0 when the group does not match.
LobLength(s, a, b) ==
    IF a = 0 \/ b = a THEN 0
    ELSE IntOfStr(SubSeq(s, a, b - 1)) * LobUnit(s, SkipRun(s, b, WhiteSpace))

\* The length of a match of LOB_PATTERN whose name ends before p.
LOB_PATTERN(s, p) ==
    LobLength(s, SkipRun(s, OpenParen(s, p), WhiteSpace),
              SkipRun(s, SkipRun(s, OpenParen(s, p), WhiteSpace), DigitSet))

\* \s*(WITH\s+TIME\s+ZONE)?  at p: has_tz.
TimestampZone(s, p) ==
    MatchWords(s, MatchLitI(s, SkipRun(s, p, WhiteSpace), <<"W", "I", "T", "H">>), <<<<"T",
        "I", "M", "E">>, <<"Z", "O", "N", "E">>>>) # 0

\* TIMESTAMP\s*(?:\(\s*(\d+)\s*\))?\s*(WITH\s+TIME\s+ZONE)?  behind TIMESTAMP,
\* which ends before p: [precision, has_tz].
TIMESTAMP_PATTERN(s, p) ==
    IF Params(s, p, FALSE).end # 0
    THEN [precision |-> IntOfStr(Params(s, p, FALSE).first),
          has_tz |-> TimestampZone(s, Params(s, p, FALSE).end)]
    ELSE [precision |-> 6, has_tz |-> TimestampZone(s, p)]

\* The keys of SIMPLE_TYPES in the order of the dictionary.
SimpleNames ==
    <<<<"S", "M", "A", "L", "L", "I", "N", "T">>, <<"I", "N", "T", "E", "G", "E",
        "R">>, <<"I", "N", "T">>, <<"B", "I", "G", "I", "N", "T">>, <<"R", "E", "A",
        "L">>, <<"F", "L", "O", "A", "T">>, <<"D", "O", "U", "B", "L", "E">>, <<"D", "O", "U",
        "B", "L", "E", " ", "P", "R", "E", "C", "I", "S", "I", "O", "N">>,
      <<"D", "A", "T", "E">>, <<"T", "I", "M", "E">>, <<"B", "O", "O", "L", "E", "A",
          "N">>, <<"X", "M", "L">>, <<"R", "O", "W", "I", "D">>>>

\* SIMPLE_TYPES[name] for the key at position i.
SIMPLE_TYPES(i) ==
    SparkType(<<"Short", "Integer", "Integer", "Long", "Float", "Double", "Double", "Double",
                "Date", "String", "Boolean", "String", "String">>[i])

\* The position in SimpleNames of the key base_type, 0 when it is no key.
SimpleIndex(base_type) ==
    IF \E i \in 1..Len(SimpleNames) : SimpleNames[i] = base_type
    THEN CHOOSE i \in 1..Len(SimpleNames) : SimpleNames[i] = base_type
    ELSE 0

\* The first key of SIMPLE_TYPES that s starts with, 0 when there is none.
FirstSimple(s) ==
    IF \E i \in 1..Len(SimpleNames) : MatchLit(s, 1, SimpleNames[i]) # 0
    THEN CHOOSE i \in 1..Len(SimpleNames) :
            /\ MatchLit(s, 1, SimpleNames[i]) # 0
            /\ \A j \in 1..(i - 1) : MatchLit(s, 1, SimpleNames[j]) = 0
    ELSE 0

\* DB2TypeConverter._get_category
get_category(base_type) ==
    IF base_type \in {<<"S", "M", "A", "L", "L", "I", "N", "T">>, <<"I", "N", "T", "E", "G",
        "E", "R">>, <<"I", "N", "T">>, <<"B", "I", "G", "I", "N", "T">>} THEN "NUMERIC_INTEGER"
    ELSE IF base_type \in {<<"R", "E", "A", "L">>, <<"F", "L", "O", "A", "T">>, <<"D", "O",
        "U", "B", "L", "E">>, <<"D", "O", "U", "B", "L", "E", " ", "P", "R", "E", "C", "I",
        "S", "I", "O", "N">>} THEN "NUMERIC_FLOAT"
    ELSE IF base_type \in {<<"D", "A", "T", "E">>, <<"T", "I", "M", "E">>} THEN "DATETIME"
    ELSE IF base_type \in {<<"B", "O", "O", "L", "E", "A", "N">>, <<"X", "M", "L">>, <<"R",
        "O", "W", "I", "D">>} THEN "SPECIAL"
    ELSE "CHARACTER"

\* parse_type from "Try DECIMAL/NUMERIC" on, s the type without its
\* modifiers.
ParseBase(s, is_nullable, is_for_bit_data) ==
    IF DECIMAL_PATTERN(s).end # 0
    THEN ParsedDB2Type(<<"D", "E", "C", "I", "M", "A",
        "L">>, "NUMERIC_DECIMAL", IntOfStr(DECIMAL_PATTERN(s).first),
                       IntOfStr(DECIMAL_PATTERN(s).second), NoInt, is_nullable, FALSE)
    ELSE IF DECFLOAT_PATTERN(s).end # 0
    THEN ParsedDB2Type(<<"D", "E", "C", "F", "L", "O", "A",
        "T">>, "NUMERIC_DECIMAL", IntOfStr(DECFLOAT_PATTERN(s).first),
                       0, NoInt, is_nullable, FALSE)
    ELSE IF FirstName(s, CharNames, FALSE) # 0
    THEN ParsedDB2Type(BaseName(s, CharNames, FALSE),
                       IF is_for_bit_data THEN "BINARY" ELSE "CHARACTER",
                       NoInt, NoInt, NamedLength(s, CharNames), is_nullable, is_for_bit_data)
    ELSE IF FirstName(s, GraphicNames, FALSE) # 0
    THEN ParsedDB2Type(BaseName(s, GraphicNames, FALSE), "GRAPHIC", NoInt, NoInt, NamedLength(s, GraphicNames), is_nullable,
                       FALSE)
    ELSE IF FirstName(s, BinaryNames, FALSE) # 0
    THEN ParsedDB2Type(BaseName(s, BinaryNames, FALSE), "BINARY", NoInt, NoInt,
                       NamedLength(s, BinaryNames), is_nullable, FALSE)
    ELSE IF LobName(s) # 0
    THEN ParsedDB2Type(LobNames[LobName(s)],
                       IF LobNames[LobName(s)] = <<"B", "L", "O",
                           "B">> THEN "BINARY" ELSE "CHARACTER",
                       NoInt, NoInt, LOB_PATTERN(s, Len(LobNames[LobName(s)]) + 1),
                       is_nullable, FALSE)
    ELSE IF MatchLit(s, 1, <<"T", "I", "M", "E", "S", "T", "A", "M", "P">>) # 0
    THEN ParsedDB2Type(IF TIMESTAMP_PATTERN(s, 10).has_tz THEN <<"T", "I", "M", "E", "S", "T",
        "A", "M", "P", "_", "W", "I", "T", "H", "_", "T", "Z">>
                       ELSE <<"T", "I", "M", "E", "S", "T", "A", "M", "P">>,
                       "DATETIME", TIMESTAMP_PATTERN(s, 10).precision, NoInt, NoInt,
                       is_nullable, FALSE)
    ELSE IF FirstSimple(s) # 0
    THEN ParsedDB2Type(SimpleNames[FirstSimple(s)], get_category(SimpleNames[FirstSimple(s)]),
                       NoInt, NoInt, NoInt, is_nullable, FALSE)
    ELSE ParsedDB2Type(<<"U", "N", "K", "N", "O", "W",
        "N">>, "CHARACTER", NoInt, NoInt, NoInt, is_nullable, FALSE)

\* parse_type from "Check for NOT NULL" on.
ParseNullable(s, is_for_bit_data) ==
    ParseBase(StripWs(Remove(s, <<"N", "O", "T", " ", "N", "U", "L",
        "L">>)), ~Contains(s, <<"N", "O", "T", " ", "N", "U", "L", "L">>), is_for_bit_data)

\* parse_type from "Check for FOR BIT DATA modifier" on, s stripped and in
\* upper case.
ParseModifiers(s) ==
    IF Contains(s, <<"F", "O", "R", " ", "B", "I", "T", " ", "D", "A", "T", "A">>)
    THEN ParseNullable(StripWs(Remove(s, <<"F", "O", "R", " ", "B", "I", "T", " ", "D", "A",
        "T", "A">>)), TRUE)
    ELSE ParseNullable(s, FALSE)

\* DB2TypeConverter.parse_type
parse_type(s) == ParseModifiers(Upper(StripWs(s)))

\* DB2TypeConverter._map_to_spark_type
db2_map_to_spark_type(parsed) ==
    IF SimpleIndex(parsed.base_type) # 0 THEN SIMPLE_TYPES(SimpleIndex(parsed.base_type))
    ELSE IF parsed.category = "NUMERIC_DECIMAL"
    THEN DecimalType(IF parsed.precision \in {NoInt, 0} THEN 18 ELSE parsed.precision,
                     IF parsed.scale \in {NoInt, 0} THEN 0 ELSE parsed.scale)
    ELSE IF parsed.category = "NUMERIC_FLOAT" THEN SparkType("Double")
    ELSE IF parsed.category = "BINARY" THEN SparkType("Binary")
    ELSE IF parsed.category = "DATETIME"
    THEN IF parsed.base_type = <<"D", "A", "T", "E">> THEN SparkType("Date")
         ELSE IF parsed.base_type \in {<<"T", "I", "M", "E", "S", "T", "A", "M", "P">>, <<"T",
             "I", "M", "E", "S", "T", "A", "M", "P", "_", "W", "I", "T", "H", "_", "T", "Z">>}
              THEN SparkType("Timestamp")
         ELSE SparkType("String")
    ELSE IF parsed.category = "SPECIAL"
    THEN IF parsed.base_type = <<"B", "O", "O", "L", "E", "A",
        "N">> THEN SparkType("Boolean") ELSE SparkType("String")
    ELSE IF parsed.is_for_bit_data THEN SparkType("Binary")
    ELSE SparkType("String")

\* DB2TypeConverter.convert
db2_convert(s) == db2_map_to_spark_type(parse_type(s))

\* -------------------------------------------- DB2 type converter: the inputs
\* A spelling of the mapping table: a name, its parameters in parentheses
\* (none, one or two), WITH TIME ZONE and FOR BIT DATA.
Spelling(name, params, tz, bit) == [name |-> name, params |-> params, tz |-> tz, bit |-> bit]

Lengths == {<<>>} \cup {<<n>> : n \in 1..MaxParam}

SqlSpellings ==
    { Spelling(SimpleNames[i], <<>>, FALSE, FALSE) : i \in 1..Len(SimpleNames) }
    \cup { Spelling(DecimalNames[i][1], <<p>>, FALSE, FALSE) : i \in 1..3, p \in 1..MaxParam }
    \cup { Spelling(DecimalNames[i][1], <<p, s>>, FALSE, FALSE) :
             i \in 1..3, p \in 1..MaxParam, s \in 0..MaxParam }
    \cup { Spelling(<<"D", "E", "C", "F", "L", "O", "A",
        "T">>, <<p>>, FALSE, FALSE) : p \in {16, 34} }
    \cup { Spelling(n, <<l>>, FALSE, b) :
             n \in {<<"C", "H", "A", "R">>, <<"V", "A", "R", "C", "H", "A", "R">>, <<"G", "R",
                 "A", "P", "H", "I", "C">>}, l \in 1..MaxParam, b \in BOOLEAN }
    \cup { Spelling(<<"C", "L", "O", "B">>, l, FALSE, b) : l \in Lengths, b \in BOOLEAN }
    \cup { Spelling(n, l, FALSE, FALSE) : n \in {<<"B", "I", "N", "A", "R", "Y">>, <<"V", "A",
        "R", "B", "I", "N", "A", "R", "Y">>, <<"B", "L", "O", "B">>}, l \in Lengths }
    \cup { Spelling(<<"T", "I", "M", "E", "S", "T", "A", "M",
        "P">>, l, z, FALSE) : l \in Lengths, z \in BOOLEAN }

\* ", ".join(str(n) for n in params)
RECURSIVE JoinParams(_)
JoinParams(params) ==
    IF Len(params) = 1 THEN StrOfNat(params[1])
    ELSE StrOfNat(params[1]) \o <<",">> \o JoinParams(Tail(params))

\* The text of a spelling.
RenderSpelling(sp) ==
    sp.name
    \o (IF sp.params # <<>> THEN <<"(">> \o JoinParams(sp.params) \o <<")">> ELSE <<>>)
    \o (IF sp.tz THEN <<" ", "W", "I", "T", "H", " ", "T", "I", "M", "E", " ", "Z", "O", "N",
        "E">> ELSE <<>>)
    \o (IF sp.bit THEN <<" ", "F", "O", "R", " ", "B", "I", "T", " ", "D", "A", "T",
        "A">> ELSE <<>>)

InitDb2 ==
    /\ PicIdle
    /\ CopybookIdle
    /\ DecodeIdle
    /\ CleanIdle
    /\ DdlIdle
    /\ DclIdle
    /\ LateIdle
    /\ sql_spelling \in SqlSpellings
    /\ db2_type = RenderSpelling(sql_spelling)
    /\ db2_op = "none"
    /\ db2_result = NoResult

\* parsed = converter.parse_type(db2_type)
Db2ParseType ==
    /\ db2_op = "none"
    /\ db2_type # <<>>
    /\ db2_op' = "parse_type"
    /\ db2_result' = parse_type(db2_type)
    /\ UNCHANGED <<sql_spelling, db2_type, picVars, cbVars, decVars, cleanVars, ddlVars, dclVars, lateVars>>

\* spark_type = converter.convert(db2_type)
Db2Convert ==
    /\ db2_op = "none"
    /\ db2_type # <<>>
    /\ db2_op' = "convert"
    /\ db2_result' = db2_convert(db2_type)
    /\ UNCHANGED <<sql_spelling, db2_type, picVars, cbVars, decVars, cleanVars, ddlVars, dclVars, lateVars>>

NextDb2 == Db2ParseType \/ Db2Convert

SpecDb2 == InitDb2 /\ [][NextDb2]_vars
\* ------------------------------------------------------------ DCLGEN parser
\* Largest number of host variable lines behind the record line.
MaxHosts == 2

\* s.split(sep) for a separator of one character.
RECURSIVE SplitOn(_, _)
SplitOn(s, sep) ==
    IF SkipUntil(s, 1, {sep}) > Len(s) THEN <<s>>
    ELSE <<SubSeq(s, 1, SkipUntil(s, 1, {sep}) - 1)>>
         \o SplitOn(SubSeq(s, SkipUntil(s, 1, {sep}) + 1, Len(s)), sep)

\* Position after  \s+  at p, else 0.
MatchSpace(s, p) == NonEmptyRun(p, SkipRun(s, p, WhiteSpace))

\* \s+A\s+B  at p for the words ws: the position after them, 0 when they
\* are not there.
RECURSIVE SpaceWords(_, _, _)
SpaceWords(s, p, ws) ==
    IF ws = <<>> \/ p = 0 THEN p
    ELSE SpaceWords(s, MatchLitI(s, MatchSpace(s, p), ws[1]), Tail(ws))

NoDeclare == [matched |-> FALSE, table_name |-> <<>>, columns |-> <<>>]

\* The ")" at q closes the column definitions:  \)\s*END-EXEC
ClosesDeclare(s, q) ==
    s[q] = ")" /\ MatchLitI(s, SkipRun(s, q + 1, WhiteSpace), <<"E", "N", "D", "-", "E", "X",
        "E", "C">>) # 0

\* The least element of a set of positions.
Least(ps) == CHOOSE p \in ps : \A q \in ps : p <= q

\* \s+TABLE\s*\((.*?)\)\s*END-EXEC  behind the table name, which runs from e
\* to n - 1: t is the position after the "(" and closes the positions at
\* which the column definitions can end.
DeclareGroups(s, e, n, t, closes) ==
    IF t # 0 /\ closes # {}
    THEN [matched |-> TRUE, table_name |-> SubSeq(s, e, n - 1),
          columns |-> SubSeq(s, t, Least(closes) - 1)]
    ELSE NoDeclare

DeclareBody(s, e, n, t) ==
    DeclareGroups(s, e, n, t, {q \in t..Len(s) : t # 0 /\ ClosesDeclare(s, q)})

DeclareTable(s, e, n) == DeclareBody(s, e, n, OpenParen(s, MatchLitI(s, MatchSpace(s, n), <<"T", "A", "B", "L", "E">>)))

\* (\w+(?:\.\w+)?)  at e, w the end of the first word and w2 the end of the
\* word behind a period.
DeclareName(s, e, w, w2) ==
    IF e = 0 \/ w = e THEN NoDeclare
    ELSE IF At(s, w) = "." /\ w2 > w + 1 THEN DeclareTable(s, e, w2)
    ELSE DeclareTable(s, e, w)

DeclareFrom(s, e) ==
    DeclareName(s, e, SkipRun(s, e, WordChars),
                SkipRun(s, SkipRun(s, e, WordChars) + 1, WordChars))

\* DECLARE_PATTERN matched at position i.
DeclareAt(s, i) ==
    DeclareFrom(s, MatchSpace(s, SpaceWords(s, MatchLitI(s, i, <<"E", "X", "E",
        "C">>), <<<<"S", "Q", "L">>, <<"D", "E", "C", "L", "A", "R", "E">>>>)))

DeclareFirst(s, starts) == IF starts = {} THEN NoDeclare ELSE DeclareAt(s, Least(starts))

\* DECLARE_PATTERN.search(content): the leftmost match.
DECLARE_PATTERN(s) == DeclareFirst(s, {i \in 1..Len(s) : DeclareAt(s, i).matched})

\* DCLParser._split_by_comma
split_by_comma(s) == SplitLoop(s, 1)

\* The DDLColumn of a match of SQL_COLUMN_PATTERN whose name ends before n
\* and whose type runs from t to e - 1.
SqlColumnType(part, n, t, e) ==
    [name |-> Upper(SubSeq(part, 1, n - 1)),
     data_type |-> Upper(StripWs(SubSeq(part, t, e - 1))),
     nullable |-> SpaceWords(part, e, <<<<"N", "O", "T">>, <<"N", "U", "L", "L">>>>) = 0,
     default_value |-> <<>>, is_primary_key |-> FALSE, foreign_key_ref |-> <<>>]

SqlColumnLetters(part, n, t, a) ==
    IF n = 1 \/ t = 0 \/ a = t THEN NoResult ELSE SqlColumnType(part, n, t, OptParen(part, a))

SqlColumnName(part, n, t) == SqlColumnLetters(part, n, t, SkipRun(Upper(part), t, Letters))

\* SQL_COLUMN_PATTERN.match(part) and the column made of its groups:
\* (\w+)\s+([A-Z]+(?:\s*\([^)]+\))?)(\s+NOT\s+NULL)?
SQL_COLUMN_PATTERN(part) ==
    SqlColumnName(part, SkipRun(part, 1, WordChars), MatchSpace(part, SkipRun(part, 1, WordChars)))

\* The loop of _parse_sql_columns over the parts.
RECURSIVE SqlColumns(_)
SqlColumns(parts) ==
    IF parts = <<>> THEN <<>>
    ELSE IF parts[Len(parts)] # <<>> /\ SQL_COLUMN_PATTERN(parts[Len(parts)]) # NoResult
         THEN Append(SqlColumns(SubSeq(parts, 1, Len(parts) - 1)),
                     SQL_COLUMN_PATTERN(parts[Len(parts)]))
    ELSE SqlColumns(SubSeq(parts, 1, Len(parts) - 1))

\* DCLParser._parse_sql_columns
parse_sql_columns(s) == SqlColumns(split_by_comma(s))

\* The characters of [\w-].
HostNameChars == WordChars \cup {"-"}

\* (\d{2})\s+([\w-]+)  matches at position i of the line.
FieldAt(line, i) ==
    /\ At(line, i) \in DigitSet
    /\ At(line, i + 1) \in DigitSet
    /\ At(line, MatchSpace(line, i + 2)) \in HostNameChars

FieldFirst(starts) == IF starts = {} THEN 0 ELSE Least(starts)

\* Where COBOL_FIELD_PATTERN.search(line) matches: the leftmost position of
\* a level and a name, 0 when there is none.
FieldStart(line) == FieldFirst({i \in 1..Len(line) : FieldAt(line, i)})

\* (?:\s+USAGE\s+(\w+))?  at p, u the position after USAGE and the white
\* space behind it: group 5, <<>> for None.
UsageGroup(line, u) ==
    IF u # 0 /\ SkipRun(line, u, WordChars) > u
    THEN SubSeq(line, u, SkipRun(line, u, WordChars) - 1)
    ELSE <<>>

\* The end of  COMP(?:-[1-5])?  whose COMP ends before c.
CompEnd(line, c) ==
    IF At(line, c) = "-" /\ At(line, c + 1) \in {"1", "2", "3", "4", "5"} THEN c + 2 ELSE c

\* pic_clause for group 3 and what follows it at p: group 4 when
\* (?:\s+(COMP(?:-[1-5])?))?  matches, c the position after COMP, else
\* group 5 when it is there.
PicWithUsage(line, group3, p, c) ==
    IF c # 0
    THEN <<"P", "I", "C",
        " ">> \o group3 \o <<" ">> \o SubSeq(line, MatchSpace(line, p), CompEnd(line, c) - 1)
    ELSE IF UsageGroup(line, MatchSpace(line, MatchLitI(line, MatchSpace(line, p), <<"U", "S",
        "A", "G", "E">>))) # <<>>
    THEN <<"P", "I", "C", " ">> \o group3 \o <<" ">>
         \o UsageGroup(line, MatchSpace(line, MatchLitI(line, MatchSpace(line, p), <<"U", "S",
             "A", "G", "E">>)))
    ELSE <<"P", "I", "C", " ">> \o group3

\* (?:\s+PIC\s+([^\s.]+))?  at n, g the position after PIC and the white
\* space behind it: the pic_clause, <<>> for None.
PicGroup(line, g, e) ==
    IF g = 0 \/ e = g THEN <<>>
    ELSE PicWithUsage(line, SubSeq(line, g, e - 1), e, MatchLitI(line, MatchSpace(line, e), <<"C", "O", "M", "P">>))

HostPicClause(line, g) == PicGroup(line, g, SkipUntil(line, g, WhiteSpace \cup {"."}))

\* The CobolHostVariable of a match at i whose name runs from a to n - 1.
HostVariable(line, i, a, n) ==
    [name |-> Upper(SubSeq(line, a, n - 1)),
     level |-> IntOfStr(SubSeq(line, i, i + 1)),
     pic_clause |-> HostPicClause(line, MatchSpace(line, MatchLitI(line, MatchSpace(line, n), <<"P", "I", "C">>))),
     sql_column |-> <<>>]

\* COBOL_FIELD_PATTERN.search(line) at i and the variable made of its groups.
COBOL_FIELD_PATTERN(line, i) ==
    HostVariable(line, i, MatchSpace(line, i + 2),
                 SkipRun(line, MatchSpace(line, i + 2), HostNameChars))

\* One iteration of the loop of _parse_cobol_record.
HostLine(variables, line) ==
    IF line = <<>> \/ FieldStart(line) = 0 THEN variables
    ELSE IF COBOL_FIELD_PATTERN(line, FieldStart(line)).level \in {1, 49} THEN variables
    ELSE Append(variables, COBOL_FIELD_PATTERN(line, FieldStart(line)))

RECURSIVE HostLines(_)
HostLines(ls) ==
    IF ls = <<>> THEN <<>>
    ELSE HostLine(HostLines(SubSeq(ls, 1, Len(ls) - 1)), StripWs(ls[Len(ls)]))

\* DCLParser._parse_cobol_record
parse_cobol_record(s) == HostLines(SplitOn(s, "\n"))

\* (\d+)  at d: d itself, else 0.
DigitsFrom(s, d) == IF SkipRun(s, d, DigitSet) > d THEN d ELSE 0

\* IS\s+(\d+)  at q: the position of the digits, else 0.
CountDigits(s, q) == DigitsFrom(s, MatchSpace(s, MatchLitI(s, q, <<"I", "S">>)))

CountGroup(s, d) == IntOfStr(SubSeq(s, d, SkipRun(s, d, DigitSet) - 1))

CountFirst(s, starts) == IF starts = {} THEN NoInt ELSE CountGroup(s, CountDigits(s, Least(starts)))

\* .*?IS\s+(\d+)  from a on: int(group 1), NoInt when it does not match.
CountFrom(s, a) ==
    CountFirst(s, {q \in a..SkipUntil(s, a, {"\n"}) : a # 0 /\ CountDigits(s, q) # 0})

\* COLUMN_COUNT_PATTERN matched at position i.
CountAt(s, i) ==
    CountFrom(s, MatchSpace(s, SpaceWords(s, MatchLitI(s, i, <<"N", "U", "M", "B", "E",
        "R">>), <<<<"O", "F">>, <<"C", "O", "L", "U", "M", "N", "S">>>>)))

CountSearch(s, starts) == IF starts = {} THEN NoInt ELSE CountAt(s, Least(starts))

\* COLUMN_COUNT_PATTERN.search(content): int(group 1) of the leftmost match,
\* NoInt when there is none.
COLUMN_COUNT_PATTERN(s) == CountSearch(s, {i \in 1..Len(s) : CountAt(s, i) # NoInt})

\* sql_name.replace("-", "_")
Hyphenless(s) == [i \in 1..Len(s) |-> IF s[i] = "-" THEN "_" ELSE s[i]]

\* "Remove DCL- prefix and convert hyphens to underscores", with the prefix
\* left in place.
SqlNameKeepsPrefix(name) == Hyphenless(name)

\* "Remove DCL- prefix and convert hyphens to underscores"
sql_name(name) ==
    Hyphenless(IF MatchLit(name, 1, <<"D", "C", "L",
        "-">>) # 0 THEN SubSeq(name, 5, Len(name)) ELSE name)

\* "Find matching SQL column": var with sql_column set to the name of the
\* first column that equals sql_name, unchanged when there is none.
MatchColumn(var, sql_columns) ==
    IF \E k \in 1..Len(sql_columns) : sql_columns[k].name = sql_name(var.name)
    THEN [var EXCEPT !.sql_column =
             sql_columns[CHOOSE k \in 1..Len(sql_columns) :
                            /\ sql_columns[k].name = sql_name(var.name)
                            /\ \A j \in 1..(k - 1) : sql_columns[j].name # sql_name(var.name)].name]
    ELSE var

\* DCLParser._map_columns_to_variables
map_columns_to_variables(result) ==
    [result EXCEPT !.host_variables =
        [i \in 1..Len(result.host_variables) |->
            MatchColumn(result.host_variables[i], result.sql_columns)]]

\* The DCLGenResult before the mapping, for the match m of DECLARE_PATTERN
\* and the count of COLUMN_COUNT_PATTERN.
DCLGenResult(s, m, sql_columns, count) ==
    [table_name |-> m.table_name,
     schema |-> IF Contains(m.table_name, <<".">>)
                THEN SubSeq(m.table_name, 1, FindLit(m.table_name, 1, <<".">>) - 1) ELSE <<>>,
     table |-> IF Contains(m.table_name, <<".">>)
               THEN SubSeq(m.table_name, FindLit(m.table_name, 1, <<".">>) + 1,
                           Len(m.table_name))
               ELSE m.table_name,
     sql_columns |-> sql_columns,
     host_variables |-> parse_cobol_record(s),
     column_count |-> IF count # NoInt THEN count ELSE Len(sql_columns)]

DclDeclared(s, m) ==
    DCLGenResult(s, m, IF m.matched THEN parse_sql_columns(m.columns) ELSE <<>>,
                 COLUMN_COUNT_PATTERN(s))

\* DCLParser.parse_content
dcl_parse_content(s) == map_columns_to_variables(DclDeclared(s, DECLARE_PATTERN(s)))

\* ---------------------------------------------------- DCLGEN: the inputs
\* A column of the DECLARE block.
DeclaredColumn(name, sql_type, not_null) ==
    [name |-> name, sql_type |-> sql_type, not_null |-> not_null]

\* A host variable line: level, name, picture, usage (None for none) and
\* whether the usage is written behind the USAGE keyword.
HostDecl(level, name, pic, usage, keyword) ==
    [level |-> level, name |-> name, pic |-> pic, usage |-> usage, keyword |-> keyword]

CustId == DeclaredColumn(<<"C", "U", "S", "T", "_", "I", "D">>, <<"I", "N", "T", "E", "G",
    "E", "R">>, TRUE)

CustName == DeclaredColumn(<<"N", "A", "M", "E">>, <<"C", "H", "A", "R", "(", "4", ")">>, FALSE)

Amount == DeclaredColumn(<<"A", "M", "T">>, <<"D", "E", "C", "I", "M", "A", "L", "(", "1",
    "5", ",", " ", "2", ")">>, TRUE)

\* The DECLARE blocks of the inputs: the columns, and whether the comment
\* that counts them follows; no columns stands for a file without the block.
DclSources ==
    { [columns |-> <<>>, counted |-> FALSE],
      [columns |-> <<CustId>>, counted |-> FALSE],
      [columns |-> <<CustId, CustName>>, counted |-> TRUE],
      [columns |-> <<CustName, Amount, CustId>>, counted |-> FALSE] }

\* The host variable of column CUST_ID.
CustIdHost == HostDecl(10, <<"D", "C", "L", "-", "C", "U", "S", "T", "-", "I", "D">>, <<"S",
    "9", "(", "9", ")">>, "COMP", FALSE)

HostDecls ==
    { CustIdHost,
      HostDecl(10, <<"C", "U", "S", "T", "-", "I", "D">>, <<"S", "9", "(", "9",
          ")">>, "COMP", TRUE),
      HostDecl(10, <<"D", "C", "L", "-", "N", "A", "M", "E">>, <<"X", "(", "4", ")">>, None, FALSE),
      HostDecl(10, <<"X">>, <<"S", "9", "(", "1", "3", ")", "V", "9", "(", "2",
          ")">>, "COMP-3", TRUE),
      HostDecl(10, <<"D", "C", "L", "-", "A", "M", "T">>, <<"S", "9", "(", "1", "3", ")", "V",
          "9", "(", "2", ")">>, "COMP-3", FALSE),
      HostDecl(10, <<"D", "C", "L", "-", "D", "C", "L", "-", "N", "A", "M", "E">>, <<"S", "9",
          "(", "4", ")">>, "COMP-5", FALSE),
      HostDecl(10, <<"D", "C", "L", "-", "R", "A", "T", "E">>, <<"S", "9", "(", "4",
          ")">>, "COMP-1", TRUE),
      HostDecl(10, <<"D", "C", "L", "-", "R", "A", "T", "E">>, <<"S", "9", "(", "4",
          ")">>, "COMP-2", FALSE),
      HostDecl(49, <<"D", "C", "L", "-", "N", "A", "M", "E", "-", "L", "E", "N">>, <<"S", "9",
          "(", "4", ")">>, "COMP-4", FALSE) }

\* The line of a host variable.
RenderHost(h) ==
    <<" ", " ", " ", " ", " ", " ", " ", " ", " ", " ",
        " ">> \o StrOfNat(h.level) \o <<" ">> \o h.name \o <<" ", "P", "I", "C", " ">> \o h.pic
    \o (IF h.usage = None THEN <<>>
        ELSE (IF h.keyword THEN <<" ", "U", "S", "A", "G", "E",
            " ">> ELSE <<" ">>) \o UsageText(h.usage))
    \o <<".", "\n">>

RenderColumn(c) ==
    c.name \o <<" ">> \o c.sql_type \o (IF c.not_null THEN <<" ", "N", "O", "T", " ", "N",
        "U", "L", "L">> ELSE <<>>)

RECURSIVE JoinLines(_, _)
JoinLines(ls, sep) ==
    IF ls = <<>> THEN <<>>
    ELSE IF Len(ls) = 1 THEN ls[1]
    ELSE ls[1] \o sep \o JoinLines(Tail(ls), sep)

\* The DECLARE block of the columns.
RenderDeclare(columns) ==
    IF columns = <<>> THEN <<>>
    ELSE <<" ", " ", " ", " ", " ", " ", " ", " ", " ", " ", " ", "E", "X", "E", "C", " ",
        "S", "Q", "L", " ", "D", "E", "C", "L", "A", "R", "E", " ", "S", ".", "T", " ", "T",
        "A", "B", "L", "E", "\n", " ", " ", " ", " ", " ", " ", " ", " ", " ", " ", " ", "(", " ">>
         \o JoinLines([i \in 1..Len(columns) |-> RenderColumn(columns[i])],
                      <<",", "\n", " ", " ", " ", " ", " ", " ", " ", " ", " ", " ", " ", " ",
                          " ">>)
         \o <<"\n", " ", " ", " ", " ", " ", " ", " ", " ", " ", " ", " ", ")", " ", "E", "N",
             "D", "-", "E", "X", "E", "C", ".", "\n">>

\* The text of a DCLGEN file.
RenderDcl(src, hosts) ==
    RenderDeclare(src.columns)
    \o <<" ", " ", " ", " ", " ", " ", " ", "0", "1", " ", " ", "D", "C", "L", "T", ".", "\n">>
    \o JoinLines([i \in 1..Len(hosts) |-> RenderHost(hosts[i])], <<>>)
    \o (IF src.counted
        THEN <<" ", " ", " ", " ", " ", " ", "*", " ", "T", "H", "E", " ", "N", "U", "M", "B",
            "E", "R", " ", "O", "F", " ", "C", "O", "L", "U", "M", "N", "S", " ", "D", "E",
            "S", "C", "R", "I", "B", "E", "D", " ", "B", "Y", " ", "T", "H", "I", "S", " ",
            "D", "E", "C", "L", "A", "R", "A", "T", "I", "O", "N", " ", "I", "S", " ">>
             \o StrOfNat(Len(src.columns)) \o <<" ", " ", "*", "\n">>
        ELSE <<>>)

InitDcl ==
    /\ PicIdle
    /\ CopybookIdle
    /\ DecodeIdle
    /\ CleanIdle
    /\ DdlIdle
    /\ Db2Idle
    /\ LateIdle
    /\ dcl_source \in DclSources
    /\ dcl_hosts \in UNION { [1..n -> HostDecls] : n \in 0..MaxHosts }
    /\ dcl_content = RenderDcl(dcl_source, dcl_hosts)
    /\ dcl_op = "none"
    /\ dcl_result = NoResult

\* result = parser.parse_content(content)
DclParseContent ==
    /\ dcl_op = "none"
    /\ dcl_content # <<>>
    /\ dcl_op' = "parse_content"
    /\ dcl_result' = dcl_parse_content(dcl_content)
    /\ UNCHANGED <<dcl_source, dcl_hosts, dcl_content, picVars, cbVars, decVars, cleanVars,
                   ddlVars, db2Vars, lateVars>>

NextDcl == DclParseContent

SpecDcl == InitDcl /\ [][NextDcl]_vars
\* ------------------------------------------------------- CCSID resolution
\* One entry of a dict.
Entry(k, v) == [key |-> k, value |-> v]

\* mf_spark.utils.encoding.CCSID_CODECS
CCSID_CODECS ==
    << Entry(37, "cp037"), Entry(500, "cp500"), Entry(1047, "cp1047"), Entry(1140, "cp1140"),
       Entry(1200, "utf-16"), Entry(1208, "utf-8"), Entry(930, "cp930"), Entry(935, "cp935"),
       Entry(937, "cp937"), Entry(273, "cp273"), Entry(284, "cp284"), Entry(285, "cp285"),
       Entry(297, "cp297") >>

\* DB2TypeConverter.CCSID_CODECS
DB2_CCSID_CODECS ==
    << Entry(37, "cp037"), Entry(500, "cp500"), Entry(1047, "cp1047"), Entry(1140, "cp1140"),
       Entry(1200, "utf-16"), Entry(1208, "utf-8"), Entry(930, "cp930"), Entry(935, "cp935"),
       Entry(937, "cp937") >>

\* d.get(k, default)
DictGetOr(d, k, default) == IF DictHas(d, k) THEN DictGet(d, k) ELSE default

\* codec.isdigit()
IsDigit(s) == s # <<>> /\ \A i \in 1..Len(s) : s[i] \in DigitSet

\* EBCDICConverter._get_ccsid: the key of the first entry with the codec,
\* NoInt for None.
get_ccsid(codec) ==
    IF \E i \in 1..Len(CCSID_CODECS) : CCSID_CODECS[i].value = codec
    THEN CCSID_CODECS[Least({i \in 1..Len(CCSID_CODECS) : CCSID_CODECS[i].value = codec})].key
    ELSE NoInt

\* The codec of EBCDICConverter.__init__ for the text given as codec.
EbcdicCodec(text) ==
    IF IsDigit(text) THEN DictGetOr(CCSID_CODECS, IntOfStr(text), "cp037") ELSE "cp037"

\* DB2TypeConverter.get_codec, NoInt for None.
get_codec(ccsid, default) ==
    DictGetOr(DB2_CCSID_CODECS, IF ccsid = NoInt \/ ccsid = 0 THEN default ELSE ccsid, "cp037")

\* The CCSIDs of the inputs: every key of CCSID_CODECS, some that are no key
\* of it, and NoInt for none given.
Ccsids ==
    {NoInt, 0, 38, 819, 1141, 65535} \cup {CCSID_CODECS[i].key : i \in 1..Len(CCSID_CODECS)}

InitCcs ==
    /\ EarlyIdle
    /\ MigIdle
    /\ MmIdle
    /\ SvIdle
    /\ ccsid_given \in Ccsids
    /\ default_ccsid \in {37, 500}
    /\ eb_codec = None
    /\ eb_ccsid = NoInt
    /\ db2_codec = None

\* EBCDICConverter(str(ccsid)), EBCDICConverter() when none is given.
NewEBCDICConverter ==
    /\ eb_codec = None
    /\ eb_codec' = IF ccsid_given = NoInt THEN "cp037" ELSE EbcdicCodec(StrOfNat(ccsid_given))
    /\ eb_ccsid' = get_ccsid(eb_codec')
    /\ UNCHANGED <<ccsid_given, default_ccsid, db2_codec, earlyVars, migVars, mmVars, svVars>>

\* DB2TypeConverter(default_ccsid).get_codec(ccsid)
GetCodec ==
    /\ db2_codec = None
    /\ db2_codec' = get_codec(ccsid_given, default_ccsid)
    /\ UNCHANGED <<ccsid_given, default_ccsid, eb_codec, eb_ccsid, earlyVars, migVars, mmVars, svVars>>

NextCcs == NewEBCDICConverter \/ GetCodec

SpecCcs == InitCcs /\ [][NextCcs]_vars
\* ------------------------------------------------------------ BaseMigrator
\* Largest number of migrate calls on one migrator.
MaxCalls == 2

\* Largest record count df.count() returns.
MaxCount == 1

\* DatasetResult(name=config.name) with the defaults of its fields.
DatasetResult(name) ==
    [name |-> name, status |-> "PENDING", record_count |-> 0, error |-> None,
     output_path |-> None, start_time |-> NoInt, end_time |-> NoInt]

\* The steps of migrate in the order of its body.
MigrateSteps == <<"validate_source", "read_source", "transform", "count", "write_output">>

\* What a step can do: return (validate_source returns True or False,
\* count a number), raise an Exception, or raise a BaseException that is
\* no Exception (KeyboardInterrupt, SystemExit).
StepOutcomes(step) ==
    (IF step = "validate_source" THEN {"True", "False"} ELSE {"return"})
    \cup {"Exception", "BaseException"}

\* The step called after step returned.
StepAfter(step) ==
    IF step = "write_output" THEN "returned"
    ELSE MigrateSteps[(CHOOSE i \in 1..Len(MigrateSteps) : MigrateSteps[i] = step) + 1]

\* Where migrate stands after step did outcome, with every step called in
\* turn whatever the one before did.
AfterStepCallsOn(step, outcome) ==
    IF outcome = "BaseException" THEN "escaped"
    ELSE IF outcome = "False" THEN "returned"
    ELSE StepAfter(step)

\* Where migrate stands after step did outcome: at the next step, returned
\* to the caller, or left by an exception.
AfterStep(step, outcome) ==
    IF outcome = "BaseException" THEN "escaped"
    ELSE IF outcome \in {"False", "Exception"} THEN "returned"
    ELSE StepAfter(step)

\* "except Exception as e" that records the error and leaves the status.
HandleExceptionKeepsStatus(result, step) ==
    [result EXCEPT !.error = step]

\* except Exception as e: the error is str(e), here the step that raised.
HandleException(result, step) ==
    [result EXCEPT !.status = "FAILED", !.error = step]

\* finally: self._result.end_time = datetime.now()
Finally(result, now) == [result EXCEPT !.end_time = now]

\* _result after the code that follows the return of step.
StepReturned(result, step, value, output_path) ==
    IF step = "validate_source"
    THEN IF value = "False"
         THEN [result EXCEPT !.status = "SKIPPED", !.error = "Source validation failed"]
         ELSE [result EXCEPT !.status = "IN_PROGRESS"]
    ELSE IF step = "count" THEN [result EXCEPT !.record_count = value]
    ELSE IF step = "write_output"
         THEN [result EXCEPT !.status = "SUCCESS", !.output_path = output_path]
    ELSE result

\* _result after step did outcome, value being what count returned.
StepResult(result, step, outcome, value, output_path) ==
    IF outcome = "BaseException" THEN result
    ELSE IF outcome = "Exception" THEN HandleException(result, step)
    ELSE StepReturned(result, step, IF step = "count" THEN value ELSE outcome, output_path)

\* _result when migrate stands at pc: the finally clause has run when
\* migrate was left.
AfterFinally(result, pc, now) ==
    IF pc \in {"returned", "escaped"} THEN Finally(result, now) ELSE result

OutputPaths == {"output/a", "output/b"}

InitMig ==
    /\ EarlyIdle
    /\ CcsIdle
    /\ MmIdle
    /\ SvIdle
    /\ mig_pc = "idle"
    /\ mig_output_path = None
    /\ mig_trace = <<>>
    /\ mig_result = DatasetResult("customers")
    /\ mig_calls = 0
    /\ mig_clock = 0

\* migrate(output_path) is called: start_time is taken.
Migrate ==
    /\ mig_pc \in {"idle", "returned", "escaped"}
    /\ mig_calls < MaxCalls
    /\ mig_calls' = mig_calls + 1
    /\ mig_output_path' \in OutputPaths
    /\ mig_clock' = mig_clock + 1
    /\ mig_result' = [mig_result EXCEPT !.start_time = mig_clock']
    /\ mig_trace' = <<>>
    /\ mig_pc' = "validate_source"
    /\ UNCHANGED <<earlyVars, ccsVars, mmVars, svVars>>

\* migrate calls the step it stands at; the step does outcome and migrate
\* runs on to its next call or to its end.
MigrateStep(step) ==
    /\ mig_pc = step
    /\ \E outcome \in StepOutcomes(step), value \in 0..MaxCount :
         /\ (step # "count" \/ outcome # "return") => value = 0
         /\ mig_trace' = Append(mig_trace, [step |-> step, outcome |-> outcome])
         /\ mig_pc' = AfterStep(step, outcome)
         /\ mig_clock' = IF mig_pc' \in {"returned", "escaped"} THEN mig_clock + 1 ELSE mig_clock
         /\ mig_result' =
              AfterFinally(StepResult(mig_result, step, outcome, value, mig_output_path),
                           mig_pc', mig_clock')
    /\ UNCHANGED <<mig_output_path, mig_calls, earlyVars, ccsVars, mmVars, svVars>>

ValidateSource == MigrateStep("validate_source")

ReadSource == MigrateStep("read_source")

Transform == MigrateStep("transform")

Count == MigrateStep("count")

WriteOutput == MigrateStep("write_output")

NextMig == Migrate \/ ValidateSource \/ ReadSource \/ Transform \/ Count \/ WriteOutput

SpecMig == InitMig /\ [][NextMig]_vars

\* ------------------------------------------------------ MainframeMigrator
\* The calls of run and run_vsam made on one migrator.
MaxRuns == 1

\* The datasets of a configuration.
MaxDatasets == 2

\* The sessions SparkSession.builder makes.
MaxSessions == 2

\* --- os.path on POSIX, a path being its characters
LastSlash(p) ==
    IF \E i \in 1..Len(p) : p[i] = "/"
    THEN CHOOSE i \in 1..Len(p) : p[i] = "/" /\ \A j \in (i + 1)..Len(p) : p[j] # "/"
    ELSE 0

basename(p) == SubSeq(p, LastSlash(p) + 1, Len(p))

RECURSIVE RstripSlash(_)
RstripSlash(p) ==
    IF p # <<>> /\ p[Len(p)] = "/" THEN RstripSlash(SubSeq(p, 1, Len(p) - 1)) ELSE p

dirname(p) ==
    LET head == SubSeq(p, 1, LastSlash(p))
    IN  IF head # <<>> /\ \E i \in 1..Len(head) : head[i] # "/"
        THEN RstripSlash(head)
        ELSE head

isabs(p) == p # <<>> /\ p[1] = "/"

join(a, b) ==
    IF isabs(b) THEN b
    ELSE IF a = <<>> \/ a[Len(a)] = "/" THEN a \o b
    ELSE a \o <<"/">> \o b

\* --- config/settings.py
\* A data_file or copybook that is None is the empty text: both are falsy.
DatasetDefinition(name, data_file, copybook, source_table, enabled) ==
    [name |-> name, data_file |-> data_file, copybook |-> copybook,
     source_table |-> source_table, enabled |-> enabled]

get_data_path(config, filename) == join(config.input_dir, filename)

\* The output directory of a dataset: output_dir joined with its name.
get_output_path(config, dataset_name) == [dir |-> config.output_dir, name |-> dataset_name]

RECURSIVE get_enabled_datasets(_)
get_enabled_datasets(datasets) ==
    IF datasets = <<>> THEN <<>>
    ELSE (IF datasets[1].enabled THEN <<datasets[1]>> ELSE <<>>)
         \o get_enabled_datasets(Tail(datasets))

\* --- the files on disk
InputFiles ==
    {<<"i", "n", "p", "u", "t", "/", "C", "U", "S", "T", ".", "P", "S">>, <<"i", "n", "p",
        "u", "t", "/", "C", "U", "S", "T", ".", "c", "p", "y">>, <<"i", "n", "p", "u", "t",
        "/", "A", "C", "C", "T", ".", "c", "p", "y">>, <<"/", "m", "n", "t", "/", "i", "n",
        "/", "A", "C", "C", "T", ".", "P", "S">>, <<"/", "m", "n", "t", "/", "i", "n", "/",
        "A", "C", "C", "T", ".", "c", "p", "y">>}

exists(path) == path \in InputFiles

\* clean_output: the directory is removed if it is there.
clean_output(out, path) == [out EXCEPT ![path] = "absent"]

\* --- core/migrator.py
MigrationSummary ==
    [total_datasets |-> 0, successful |-> 0, failed |-> 0, skipped |-> 0,
     total_records |-> 0, results |-> <<>>, start_time |-> NoInt, end_time |-> NoInt]

\* A DatasetResult with its source_info; a time of 0 is a reading of the
\* clock.
NoSourceInfo == [type |-> None]

NewResult(name) ==
    [name |-> name, status |-> "PENDING", record_count |-> 0, error |-> None,
     output_path |-> NoResult, start_time |-> 0, end_time |-> NoInt,
     source_info |-> NoSourceInfo]

\* The names run keeps: those of the datasets argument, if it is given and
\* not empty.
RECURSIVE NameFilter(_, _)
NameFilter(todo, names) ==
    IF todo = <<>> THEN <<>>
    ELSE (IF \E k \in 1..Len(names) : names[k] = todo[1].name THEN <<todo[1]>> ELSE <<>>)
         \o NameFilter(Tail(todo), names)

datasets_to_process(config, datasets) ==
    IF datasets.given /\ datasets.names # <<>>
    THEN NameFilter(get_enabled_datasets(config.datasets), datasets.names)
    ELSE get_enabled_datasets(config.datasets)

\* What the Spark part of processing a dataset does: it succeeds, or the
\* named call raises an Exception, or a BaseException arrives in load.
SparkOutcomes == {"ok", "load", "write", "validate", "invalid", "BaseException"}

\* The world a dataset is processed in and leaves: the result, the output
\* directories, the paths cleaned, and whether a BaseException escaped.
Processed(result, out, cleaned, escaped) ==
    [result |-> result, out |-> out, cleaned |-> cleaned, escaped |-> escaped]

\* The try block both _process_vsam and _process_db2 end with, after
\* clean_output: load, count, _write_output, SUCCESS and, for VSAM with
\* validate_output, the validation.
SparkPart(config, result, output_path, outcome, count, validates, out, cleaned) ==
    IF outcome = "BaseException" THEN Processed(result, out, cleaned, TRUE)
    ELSE IF outcome = "load"
    THEN Processed([result EXCEPT !.status = "FAILED", !.error = "load", !.end_time = 0],
                   out, cleaned, FALSE)
    ELSE IF outcome = "write"
    THEN Processed([result EXCEPT !.record_count = count, !.status = "FAILED",
                                  !.error = "write", !.end_time = 0],
                   out, cleaned, FALSE)
    ELSE LET written == [out EXCEPT ![output_path] = "new"]
             success == [result EXCEPT !.record_count = count, !.status = "SUCCESS",
                                       !.output_path = output_path, !.end_time = 0]
         IN  IF validates /\ outcome = "validate"
             THEN Processed([success EXCEPT !.status = "FAILED", !.error = "validate"],
                            written, cleaned, FALSE)
             ELSE IF validates /\ outcome = "invalid"
             THEN Processed([success EXCEPT !.source_info.validation_errors = TRUE],
                            written, cleaned, FALSE)
             ELSE Processed(success, written, cleaned, FALSE)

CleanedFirst(config, output_path, out) ==
    IF config.clean_output THEN clean_output(out, output_path) ELSE out

CleanedLog(config, output_path, cleaned) ==
    IF config.clean_output THEN cleaned \cup {output_path} ELSE cleaned

process_vsam(config, dataset, outcome, count, out, cleaned) ==
    LET result == NewResult(dataset.name)
        data_path == get_data_path(config, dataset.data_file)
        copybook_path == get_data_path(config, dataset.copybook)
        output_path == get_output_path(config, dataset.name)
    IN  IF ~exists(data_path)
        THEN Processed([result EXCEPT !.status = "SKIPPED", !.error = "Data file not found"],
                       out, cleaned, FALSE)
        ELSE IF ~exists(copybook_path)
        THEN Processed([result EXCEPT !.status = "SKIPPED", !.error = "Copybook not found"],
                       out, cleaned, FALSE)
        ELSE SparkPart(config,
                       [result EXCEPT !.source_info =
                           [type |-> "vsam", data_file |-> dataset.data_file,
                            copybook |-> dataset.copybook, validation_errors |-> FALSE]],
                       output_path, outcome, count, config.validate_output,
                       CleanedFirst(config, output_path, out),
                       CleanedLog(config, output_path, cleaned))

process_db2(config, dataset, outcome, count, out, cleaned) ==
    LET output_path == get_output_path(config, dataset.name)
        result == [NewResult(dataset.name) EXCEPT !.source_info =
                      [type |-> "db2", source_table |-> dataset.source_table,
                       mode |-> IF config.db2_mock_mode THEN "mock" ELSE "jdbc"]]
        out1 == CleanedFirst(config, output_path, out)
        cleaned1 == CleanedLog(config, output_path, cleaned)
    IN  IF config.db2_mock_mode
        THEN Processed([result EXCEPT !.status = "SKIPPED",
                                      !.error = "DB2 mock mode - no actual data",
                                      !.end_time = 0],
                       out1, cleaned1, FALSE)
        ELSE SparkPart(config, result, output_path, outcome, count, FALSE, out1, cleaned1)

process_dataset(config, dataset, outcome, count, out, cleaned) ==
    IF dataset.data_file # <<>> /\ dataset.copybook # <<>>
    THEN LET p == process_vsam(config, dataset, outcome, count, out, cleaned)
         IN  [p EXCEPT !.result.end_time = 0]
    ELSE IF dataset.source_table # None
    THEN LET p == process_db2(config, dataset, outcome, count, out, cleaned)
         IN  [p EXCEPT !.result.end_time = 0]
    ELSE Processed([NewResult(dataset.name) EXCEPT !.status = "SKIPPED",
                       !.error = "No data source specified", !.end_time = 0],
                   out, cleaned, FALSE)

\* The outcomes the Spark part of a dataset can have under a configuration.
OutcomesOf(config, dataset) ==
    IF dataset.data_file # <<>> /\ dataset.copybook # <<>>
    THEN IF exists(get_data_path(config, dataset.data_file))
            /\ exists(get_data_path(config, dataset.copybook))
         THEN IF config.validate_output THEN SparkOutcomes
              ELSE SparkOutcomes \ {"validate", "invalid"}
         ELSE {"ok"}
    ELSE IF dataset.source_table # None /\ ~config.db2_mock_mode
    THEN SparkOutcomes \ {"validate", "invalid"}
    ELSE {"ok"}

\* run's bookkeeping of one result.
TallyDropsSkipped(summary, result) ==
    LET s == [summary EXCEPT !.results = Append(@, result)]
    IN  IF result.status = "SUCCESS"
        THEN [s EXCEPT !.successful = @ + 1, !.total_records = @ + result.record_count]
        ELSE IF result.status = "SKIPPED"
        THEN s
        ELSE [s EXCEPT !.failed = @ + 1]

Tally(summary, result) ==
    LET s == [summary EXCEPT !.results = Append(@, result)]
    IN  IF result.status = "SUCCESS"
        THEN [s EXCEPT !.successful = @ + 1, !.total_records = @ + result.record_count]
        ELSE IF result.status = "SKIPPED"
        THEN [s EXCEPT !.skipped = @ + 1]
        ELSE [s EXCEPT !.failed = @ + 1]

\* --- core/session.py
SparkSessionManager == [session |-> NoInt]

is_active(manager) == manager.session # NoInt

StopLeavesSession(manager) == manager

stop(manager) == IF manager.session # NoInt THEN [manager EXCEPT !.session = NoInt] ELSE manager

\* builder.getOrCreate() makes session number built + 1.
get_or_create(manager, built) ==
    IF manager.session # NoInt THEN manager ELSE [manager EXCEPT !.session = built + 1]

\* --- the configurations
CustFile == <<"C", "U", "S", "T", ".", "P", "S">>
CustBook == <<"C", "U", "S", "T", ".", "c", "p", "y">>
AcctFile == <<"A", "C", "C", "T", ".", "P", "S">>
AcctBook == <<"A", "C", "C", "T", ".", "c", "p", "y">>

DatasetPool ==
    << DatasetDefinition("CUSTOMER", CustFile, CustBook, None, TRUE),
       DatasetDefinition("ORDERS", <<>>, <<>>, "DB.ORDERS", TRUE),
       DatasetDefinition("ACCOUNT", AcctFile, AcctBook, None, TRUE),
       DatasetDefinition("ARCHIVE", <<>>, <<>>, None, TRUE),
       DatasetDefinition("HISTORY", CustFile, CustBook, None, FALSE) >>

DatasetNames == {DatasetPool[k].name : k \in 1..Len(DatasetPool)} \cup {"ADHOC"}

\* The configured datasets: up to MaxDatasets of the pool, in its order.
RECURSIVE Picked(_, _)
Picked(ks, k) ==
    IF k > Len(DatasetPool) THEN <<>>
    ELSE (IF k \in ks THEN <<DatasetPool[k]>> ELSE <<>>) \o Picked(ks, k + 1)

DatasetLists ==
    {Picked(ks, 1) : ks \in {s \in SUBSET (1..Len(DatasetPool)) :
                                Cardinality(s) \in 1..MaxDatasets}}

MigrationConfig(datasets, clean, validate, manifest, mock) ==
    [input_dir |-> <<"i", "n", "p", "u", "t">>, output_dir |-> "output", datasets |-> datasets,
     clean_output |-> clean, validate_output |-> validate,
     generate_manifest |-> manifest, db2_mock_mode |-> mock]

\* The datasets arguments of run.
NoDatasets == [given |-> FALSE, names |-> <<>>]

Given(names) == [given |-> TRUE, names |-> names]

DatasetsArgs ==
    {NoDatasets, Given(<<>>), Given(<<"CUSTOMER">>), Given(<<"ORDERS", "CUSTOMER">>),
     Given(<<"HISTORY", "ARCHIVE">>)}

\* The arguments of run_vsam.
VsamArgs ==
    {[data_file |-> <<"/", "m", "n", "t", "/", "i", "n", "/", "A", "C", "C", "T", ".", "P",
        "S">>, copybook |-> <<"/", "m", "n", "t", "/", "i", "n", "/", "A", "C", "C", "T", ".",
        "c", "p", "y">>, output_name |-> n] :
        n \in {"ADHOC", "CUSTOMER"}}
    \cup {[data_file |-> CustFile, copybook |-> CustBook, output_name |-> "CUSTOMER"]}

InitMm ==
    /\ EarlyIdle
    /\ CcsIdle
    /\ MigIdle
    /\ SvIdle
    /\ \E datasets \in DatasetLists, clean \in BOOLEAN, validate \in BOOLEAN,
          manifest \in BOOLEAN, mock \in BOOLEAN :
         mm_config = MigrationConfig(datasets, clean, validate, manifest, mock)
    /\ mm_pc = "idle"
    /\ mm_error = None
    /\ mm_datasets = NoDatasets
    /\ mm_todo = <<>>
    /\ mm_summary = MigrationSummary
    /\ session_manager = NoResult
    /\ mm_spark = NoInt
    /\ mm_built = 0
    /\ mm_out = [p \in {get_output_path(mm_config, n) : n \in DatasetNames} |-> "old"]
    /\ mm_cleaned = {}
    /\ mm_vsam = NoResult
    /\ mm_vsam_result = NoResult
    /\ mm_calls = 0

\* run up to its try block: the summary is made anew, the datasets to
\* process are chosen and _init_spark makes the manager and its session,
\* unless getOrCreate raises.
RunBegins(config, datasets) ==
    /\ mm_pc \in {"idle", "returned", "raised"}
    /\ mm_calls < MaxRuns
    /\ mm_built < MaxSessions
    /\ mm_calls' = mm_calls + 1
    /\ mm_config' = config
    /\ mm_datasets' = datasets
    /\ mm_todo' = datasets_to_process(config, datasets)
    /\ mm_summary' = [MigrationSummary EXCEPT !.start_time = 0,
                                              !.total_datasets = Len(mm_todo')]
    /\ mm_cleaned' = {}
    /\ mm_vsam_result' = NoResult
    /\ \E raises \in BOOLEAN :
         IF raises
         THEN /\ session_manager' = SparkSessionManager
              /\ mm_pc' = "raised"
              /\ mm_error' = "_init_spark"
              /\ UNCHANGED <<mm_spark, mm_built>>
         ELSE /\ session_manager' = get_or_create(SparkSessionManager, mm_built)
              /\ mm_spark' = session_manager'.session
              /\ mm_built' = mm_built + 1
              /\ mm_pc' = "loop"
              /\ mm_error' = None
    /\ UNCHANGED <<mm_out, earlyVars, ccsVars, migVars, svVars>>

run ==
    /\ \E datasets \in DatasetsArgs : RunBegins(mm_config, datasets)
    /\ mm_vsam' = NoResult

\* run_vsam up to the try block of the run it calls.
run_vsam ==
    \E args \in VsamArgs :
       /\ mm_vsam' = args
       /\ RunBegins(IF isabs(args.data_file)
                    THEN [mm_config EXCEPT !.input_dir = dirname(args.data_file)]
                    ELSE mm_config,
                    Given(<<args.output_name>>))

\* _stop_spark, run's finally.
stop_spark ==
    /\ session_manager' = stop(session_manager)
    /\ mm_spark' = NoInt

\* One iteration of run's loop: _process_dataset and the bookkeeping of its
\* result; a BaseException leaves run through its finally.
ProcessDataset ==
    /\ mm_pc = "loop"
    /\ Len(mm_summary.results) < Len(mm_todo)
    /\ LET dataset == mm_todo[Len(mm_summary.results) + 1]
       IN  \E outcome \in OutcomesOf(mm_config, dataset), count \in {0, MaxCount} :
              LET p == process_dataset(mm_config, dataset, outcome, count, mm_out, mm_cleaned)
              IN  /\ mm_out' = p.out
                  /\ mm_cleaned' = p.cleaned
                  /\ IF p.escaped
                     THEN /\ stop_spark
                          /\ mm_pc' = "raised"
                          /\ mm_error' = "_process_dataset"
                          /\ UNCHANGED mm_summary
                     ELSE /\ mm_summary' = Tally(mm_summary, p.result)
                          /\ UNCHANGED <<mm_pc, mm_error, session_manager, mm_spark>>
    /\ UNCHANGED <<mm_config, mm_datasets, mm_todo, mm_built, mm_vsam, mm_vsam_result,
                   mm_calls, earlyVars, ccsVars, migVars, svVars>>

\* The end of run after its loop: the manifest is saved if configured,
\* which may raise; the finally stops Spark; run returns the results, of
\* which run_vsam returns the first.
RunEnds ==
    /\ mm_pc = "loop"
    /\ Len(mm_summary.results) = Len(mm_todo)
    /\ stop_spark
    /\ \E raises \in BOOLEAN :
         /\ raises => mm_config.generate_manifest
         /\ IF raises
            THEN /\ mm_pc' = "raised"
                 /\ mm_error' = "_save_manifest"
                 /\ UNCHANGED <<mm_summary, mm_vsam_result>>
            ELSE /\ mm_summary' = [mm_summary EXCEPT !.end_time = 0]
                 /\ IF mm_vsam = NoResult
                    THEN /\ mm_pc' = "returned"
                         /\ mm_error' = None
                         /\ UNCHANGED mm_vsam_result
                    ELSE IF mm_summary.results = <<>>
                    THEN /\ mm_pc' = "raised"
                         /\ mm_error' = "IndexError"
                         /\ UNCHANGED mm_vsam_result
                    ELSE /\ mm_pc' = "returned"
                         /\ mm_error' = None
                         /\ mm_vsam_result' = mm_summary.results[1]
    /\ UNCHANGED <<mm_config, mm_datasets, mm_todo, mm_built, mm_out, mm_cleaned, mm_vsam,
                   mm_calls, earlyVars, ccsVars, migVars, svVars>>

\* Between the calls of run, the manager run left behind is used directly.
ManagerStop ==
    /\ mm_pc \in {"returned", "raised"}
    /\ session_manager # NoResult
    /\ session_manager' = stop(session_manager)
    /\ UNCHANGED <<mm_config, mm_pc, mm_error, mm_datasets, mm_todo, mm_summary, mm_spark,
                   mm_built, mm_out, mm_cleaned, mm_vsam, mm_vsam_result, mm_calls,
                   earlyVars, ccsVars, migVars, svVars>>

ManagerGetOrCreate ==
    /\ mm_pc \in {"returned", "raised"}
    /\ session_manager # NoResult
    /\ mm_built < MaxSessions
    /\ session_manager' = get_or_create(session_manager, mm_built)
    /\ mm_built' = IF is_active(session_manager) THEN mm_built ELSE mm_built + 1
    /\ UNCHANGED <<mm_config, mm_pc, mm_error, mm_datasets, mm_todo, mm_summary, mm_spark,
                   mm_out, mm_cleaned, mm_vsam, mm_vsam_result, mm_calls,
                   earlyVars, ccsVars, migVars, svVars>>

NextMm == run \/ run_vsam \/ ProcessDataset \/ RunEnds \/ ManagerStop \/ ManagerGetOrCreate

SpecMm == InitMm /\ [][NextMm]_vars

\* -------------------------------------------------------- SchemaValidator
\* The fields of a schema.
MaxFields == 2

\* --- pyspark.sql.types: a type is its class and, for DecimalType, its
\* precision and scale; two types are equal when all of these are.
SimpleType(base) == [base |-> base]

SvDecimalType(p, s) == [base |-> "DecimalType", precision |-> p, scale |-> s]

SvStructField(name, dataType) == [name |-> name, dataType |-> dataType]

\* --- validators/schema_validator.py
\* COMPATIBLE_TYPES: the classes each class may be promoted to.
COMPATIBLE_TYPES ==
    [b \in {"ShortType", "IntegerType", "LongType", "FloatType", "DoubleType", "DecimalType",
            "StringType", "DateType", "TimestampType", "BinaryType", "BooleanType"} |->
       CASE b = "ShortType" ->
              {"ShortType", "IntegerType", "LongType", "DecimalType", "FloatType",
               "DoubleType", "StringType"}
         [] b = "IntegerType" ->
              {"IntegerType", "LongType", "DecimalType", "FloatType", "DoubleType", "StringType"}
         [] b = "LongType" -> {"LongType", "DecimalType", "DoubleType", "StringType"}
         [] b = "FloatType" -> {"FloatType", "DoubleType", "StringType"}
         [] b = "DoubleType" -> {"DoubleType", "StringType"}
         [] b = "DecimalType" -> {"DecimalType", "DoubleType", "StringType"}
         [] b = "StringType" -> {"StringType"}
         [] b = "DateType" -> {"DateType", "TimestampType", "StringType"}
         [] b = "TimestampType" -> {"TimestampType", "StringType"}
         [] b = "BinaryType" -> {"BinaryType", "StringType"}
         [] b = "BooleanType" -> {"BooleanType", "StringType", "IntegerType"}]

SchemaValidator(allow_missing_in_target, allow_type_promotion, strict_mode) ==
    [allow_missing_in_target |-> allow_missing_in_target,
     allow_type_promotion |-> allow_type_promotion, strict_mode |-> strict_mode]

Compatibility(is_compatible, is_exact) ==
    [is_compatible |-> is_compatible, is_exact |-> is_exact]

check_type_compatibility(self, source_type, target_type) ==
    IF source_type = target_type THEN Compatibility(TRUE, TRUE)
    ELSE IF source_type.base = "DecimalType" /\ target_type.base = "DecimalType"
    THEN Compatibility(target_type.precision >= source_type.precision
                          /\ target_type.scale >= source_type.scale,
                       target_type.precision = source_type.precision
                          /\ target_type.scale = source_type.scale)
    ELSE LET compatible_targets ==
                 IF source_type.base \in DOMAIN COMPATIBLE_TYPES
                 THEN COMPATIBLE_TYPES[source_type.base]
                 ELSE {}
         IN  IF target_type.base \in compatible_targets
             THEN IF self.allow_type_promotion
                  THEN Compatibility(TRUE, FALSE)
                  ELSE Compatibility(source_type.base = target_type.base,
                                     source_type.base = target_type.base)
             ELSE Compatibility(FALSE, FALSE)

FieldNamesOf(schema) == {schema[k].name : k \in 1..Len(schema)}

\* {f.name: f for f in fields}: the last field of a name is the one kept.
FieldDict(schema) ==
    [n \in FieldNamesOf(schema) |->
       schema[CHOOSE k \in 1..Len(schema) :
                 schema[k].name = n /\ \A j \in (k + 1)..Len(schema) : schema[j].name # n]]

TypeChange(field_name, source_field, target_field) ==
    [field |-> field_name, source |-> source_field.dataType, target |-> target_field.dataType]

\* The comparisons of the matching fields that come out as comparison says.
ChangesWhere(self, source, target, is_compatible, is_exact) ==
    {TypeChange(n, FieldDict(source)[n], FieldDict(target)[n]) :
        n \in {m \in FieldNamesOf(source) \cap FieldNamesOf(target) :
                  LET c == check_type_compatibility(self, FieldDict(source)[m].dataType,
                                                    FieldDict(target)[m].dataType)
                  IN  c.is_compatible = is_compatible /\ c.is_exact = is_exact}}

compare_schemas(self, source, target) ==
    LET type_mismatches ==
            ChangesWhere(self, source, target, FALSE, FALSE)
                \cup ChangesWhere(self, source, target, FALSE, TRUE)
        compatible_changes == ChangesWhere(self, source, target, TRUE, FALSE)
        missing_in_target == FieldNamesOf(source) \ FieldNamesOf(target)
    IN  [source_fields |-> [k \in 1..Len(source) |-> source[k].name],
         target_fields |-> [k \in 1..Len(target) |-> target[k].name],
         matching_fields |-> FieldNamesOf(source) \cap FieldNamesOf(target),
         missing_in_target |-> missing_in_target,
         missing_in_source |-> FieldNamesOf(target) \ FieldNamesOf(source),
         type_mismatches |-> type_mismatches,
         compatible_changes |-> compatible_changes,
         is_compatible |->
             /\ type_mismatches = {}
             /\ ~(~self.allow_missing_in_target /\ missing_in_target # {})
             /\ ~(self.strict_mode /\ compatible_changes # {})]

\* --- the schemas
SvDataTypes ==
    {SimpleType("IntegerType"), SimpleType("LongType"), SvDecimalType(10, 2),
     SvDecimalType(12, 4)}

SvFields == {SvStructField(n, t) : n \in {"ID", "AMOUNT"}, t \in SvDataTypes}

SvSchemas == UNION {[1..n -> SvFields] : n \in 1..MaxFields}

InitSv ==
    /\ EarlyIdle
    /\ CcsIdle
    /\ MigIdle
    /\ MmIdle
    /\ \E a \in BOOLEAN, p \in BOOLEAN, s \in BOOLEAN : sv_flags = SchemaValidator(a, p, s)
    /\ sv_source \in SvSchemas
    /\ sv_target \in SvSchemas
    /\ sv_op = "none"
    /\ sv_result = NoResult

CompareSchemas ==
    /\ sv_op = "none"
    /\ sv_op' = "compare_schemas"
    /\ sv_result' = compare_schemas(sv_flags, sv_source, sv_target)
    /\ UNCHANGED <<sv_flags, sv_source, sv_target, earlyVars, ccsVars, migVars, mmVars>>

NextSv == CompareSchemas

SpecSv == InitSv /\ [][NextSv]_vars

\* ------------------------------------------------------------- properties
\* The picture of the phrase PIC S9(7)V99 COMP-3.
S1Picture ==
    [keyword |-> "PIC", sign |-> TRUE, base |-> "9", int_form |-> "count",
     int_digits |-> 7, frac_form |-> "repeat", frac_digits |-> 2,
     usage |-> "COMP-3"]

\* The statements 01 REC / 05 A PIC X(4) / 05 B PIC X(4) /
\* 05 C REDEFINES B PIC 9(4) / 05 D PIC X(2).
S4Statements ==
    << Stmt(1, "REC", <<>>, FALSE, 1, None),
       Stmt(5, "A", <<Pic(FALSE, "X", "count", 4, None)>>, FALSE, 1, None),
       Stmt(5, "B", <<Pic(FALSE, "X", "count", 4, None)>>, FALSE, 1, None),
       Stmt(5, "C", <<Pic(FALSE, "9", "count", 4, None)>>, FALSE, 1, "B"),
       Stmt(5, "D", <<Pic(FALSE, "X", "count", 2, None)>>, FALSE, 1, None) >>

\* The sum of length x occurs over the elementary fields of fs that carry no
\* REDEFINES clause.
RECURSIVE SumOfWidths(_)
SumOfWidths(fs) ==
    IF fs = <<>> THEN 0
    ELSE SumOfWidths(SubSeq(fs, 1, Len(fs) - 1))
         + (IF is_elementary(fs[Len(fs)]) /\ fs[Len(fs)].redefines = None
            THEN fs[Len(fs)].length * fs[Len(fs)].occurs ELSE 0)

\* Every REDEFINES of ss names an earlier statement of the same level.
RedefinesEarlier(ss) ==
    \A i \in 1..Len(ss) :
        ss[i].redefines # None =>
            \E j \in 1..(i - 1) :
                ss[j].name = ss[i].redefines /\ ss[j].level = ss[i].level

\* C1: for every copybook parsed by parse_content, the sum of length x occurs
\* over the returned elementary fields that carry no REDEFINES clause equals
\* get_record_length of the same field list. Stated for the copybooks whose
\* REDEFINES name an earlier field, parsed with every field kept.
C1_SumEqualsRecordLength ==
    (~ignore_fillers /\ RedefinesEarlier(stmts))
        => SumOfWidths(fields) = get_record_length(fields)

\* What parse_content returns for the copybook without its last statement.
BeforeLast == parse_content(SubSeq(stmts, 1, Len(stmts) - 1), ignore_fillers)

\* The last statement read is a REDEFINES of a field returned before it.
LastRedefinesEarlier ==
    /\ stmts # <<>>
    /\ stmts[Len(stmts)].redefines # None
    /\ LastNamed(BeforeLast.fields, stmts[Len(stmts)].redefines) # 0

\* C2: a field declared with REDEFINES X, X an earlier field, gets the offset
\* of X and leaves the layout cursor where it was; and the statements
\* 01 REC / 05 A PIC X(4) / 05 B PIC X(4) / 05 C REDEFINES B PIC 9(4) /
\* 05 D PIC X(2) yield the offsets A=0, B=4, C=4, D=8 and record length 10.
C2_RedefinesKeepsCursor ==
    /\ LastRedefinesEarlier =>
         /\ fields[Len(fields)].offset
              = BeforeLast.fields[LastNamed(BeforeLast.fields,
                                            stmts[Len(stmts)].redefines)].offset
         /\ current_offset = BeforeLast.current_offset
    /\ stmts = S4Statements =>
         /\ <<fields[2].offset, fields[3].offset, fields[4].offset,
              fields[5].offset>> = <<0, 4, 4, 8>>
         /\ get_record_length(fields) = 10

\* C3: parse_pic_clause takes the scale of a numeric picture to be the number
\* of 9 positions after V, written as repeated 9s or with a count, and
\* digits = integer positions + scale; PIC S9(7)V99 COMP-3 analyses to a
\* signed packed decimal of 9 digits and scale 2, of type Decimal(9, 2).
C3_ScaleIsFractionPositions ==
    /\ (pic_op = "parse_pic_clause" /\ picture.keyword = "PIC" /\ picture.base = "9") =>
         /\ ~IsError(pic_result)
         /\ pic_result.decimal_digits = picture.frac_digits
         /\ total_digits(pic_result) = picture.int_digits + picture.frac_digits
    /\ (pic_op = "parse_pic_clause" /\ picture = S1Picture) =>
         /\ ~IsError(pic_result)
         /\ is_packed(pic_result)
         /\ pic_result.is_signed
         /\ total_digits(pic_result) = 9
         /\ pic_result.decimal_digits = 2
    /\ (pic_op = "convert" /\ picture = S1Picture) =>
         pic_result = DecimalType(9, 2)

\* The classical storage width of a picture as it is written.
ClassicalWidth(p) ==
    IF p.base # "9" THEN p.int_digits
    ELSE IF p.usage \in {None, "DISPLAY"} THEN p.int_digits + p.frac_digits
    ELSE IF p.usage = "COMP-3" THEN (p.int_digits + p.frac_digits + 2) \div 2
    ELSE IF p.usage \in {"COMP", "COMP-4", "COMP-5"}
         THEN IF p.int_digits + p.frac_digits <= 4 THEN 2
              ELSE IF p.int_digits + p.frac_digits <= 9 THEN 4 ELSE 8
    ELSE IF p.usage = "COMP-1" THEN 4
    ELSE 8

\* The picture is one whose digit counts the analyzer reads as written: no
\* fraction, or integer part and fraction both written with a count; and a
\* text picture has no COMP usage.
CountsReadAsWritten(p) ==
    /\ p.frac_form = "none" \/ (p.frac_form = "count" /\ p.int_form = "count")
    /\ p.base # "9" => p.usage \in {None, "DISPLAY"}

\* C4: for every phrase the analyzer accepts, get_storage_bytes returns the
\* classical width on digits = int_digits + frac_digits: int_digits for X/A,
\* digits for DISPLAY numerics, ceil((digits+1)/2) for COMP-3, 2, 4 or 8 for
\* COMP/COMP-4/COMP-5, 4 for COMP-1, 8 for COMP-2. Stated for the phrases
\* whose digit counts the analyzer reads as written.
C4_StorageWidthIsClassical ==
    (pic_op = "get_storage_bytes" /\ ~IsError(pic_result) /\ CountsReadAsWritten(picture))
        => pic_result.value = ClassicalWidth(picture)

\* The k-th nibble of bytes, the high nibble of the first byte being the first.
NibbleAt(bytes, k) ==
    IF k % 2 = 1 THEN bytes[(k + 1) \div 2] \div 16 ELSE bytes[k \div 2] % 16

\* The first n nibbles of bytes read as a decimal integer.
RECURSIVE NibblesValue(_, _)
NibblesValue(bytes, n) ==
    IF n = 0 THEN 0 ELSE (10 * NibblesValue(bytes, n - 1)) + NibbleAt(bytes, n)

\* The low nibbles of the first n bytes read as a decimal integer.
RECURSIVE LowNibblesValue(_, _)
LowNibblesValue(bytes, n) ==
    IF n = 0 THEN 0 ELSE 10 * LowNibblesValue(bytes, n - 1) + (bytes[n] % 16)

\* Every nibble of bytes but the last is a BCD digit.
DigitNibblesBcd(bytes) ==
    \A k \in 1..(2 * Len(bytes) - 1) : NibbleAt(bytes, k) <= 9

\* The low nibble of the last byte.
SignNibble(bytes) == bytes[Len(bytes)] % 16

\* The coefficient of a Decimal with its sign.
SignedCoef(d) == IF d.neg THEN 0 - d.coef ELSE d.coef

\* bytes is the image of a PackedDecimal value of prec digits: BCD digit
\* nibbles, sign nibble 0xC or 0xD, a zero pad nibble when prec is even, and
\* no negative zero.
ValidPackedImage(bytes, prec) ==
    /\ DigitNibblesBcd(bytes)
    /\ SignNibble(bytes) \in {12, 13}
    /\ prec % 2 = 0 => NibbleAt(bytes, 1) = 0
    /\ SignNibble(bytes) = 13 => NibblesValue(bytes, 2 * Len(bytes) - 1) > 0

\* C5: packed-decimal round trip: for every valid PackedDecimal{digits, scale}
\* image b, encode_packed_decimal(decode_packed_decimal(b, scale), digits,
\* scale) returns exactly b.
C5_PackedRoundTrip ==
    (dec_op = "encode_packed_decimal" /\ ValidPackedImage(data, precision))
        => (~IsError(encoded) /\ encoded.bytes = data)

\* C6: decode_packed_decimal classifies the sign nibble: 0xA, 0xC, 0xE, 0xF
\* give a non-negative value, 0xB and 0xD a negative value, and 0x0..0x9
\* raise an error instead of returning a value.
C6_SignNibbleClassification ==
    (dec_op = "decode_packed_decimal" /\ data # <<>> /\ DigitNibblesBcd(data)) =>
        /\ SignNibble(data) \in {10, 12, 14, 15} =>
             (~IsError(decoded) /\ SignedCoef(decoded) >= 0)
        /\ SignNibble(data) \in {11, 13} =>
             /\ ~IsError(decoded)
             /\ SignedCoef(decoded) <= 0
             /\ NibblesValue(data, 2 * Len(data) - 1) > 0 => SignedCoef(decoded) < 0
        /\ SignNibble(data) <= 9 => IsError(decoded)

IntegerTypeFor(digits) ==
    IF digits <= 4 THEN SparkType("Short")
    ELSE IF digits <= 9 THEN SparkType("Integer")
    ELSE SparkType("Long")

\* Decimal(digits, scale) when scale > 0, else the integer type of the digits
\* (no type is stated for more than 18 digits).
DecimalOrInteger(parsed, result) ==
    /\ parsed.decimal_digits > 0 =>
         result = DecimalType(total_digits(parsed), parsed.decimal_digits)
    /\ (parsed.decimal_digits = 0 /\ total_digits(parsed) <= 18) =>
         result = IntegerTypeFor(total_digits(parsed))

\* The derivation of the logical type result from the parsed phrase; a packed
\* numeric of scale 0 is an integer when packed_integer, a Decimal otherwise.
LogicalTypeDerivation(parsed, result, packed_integer) ==
    /\ is_alphanumeric(parsed) => result = SparkType("String")
    /\ (~is_alphanumeric(parsed) /\ parsed.usage = "COMP-1") =>
         result = SparkType("Float")
    /\ (~is_alphanumeric(parsed) /\ parsed.usage = "COMP-2") =>
         result = SparkType("Double")
    /\ (~is_alphanumeric(parsed) /\ (parsed.usage = "DISPLAY" \/ is_binary(parsed))) =>
         DecimalOrInteger(parsed, result)
    /\ (~is_alphanumeric(parsed) /\ is_packed(parsed) /\ packed_integer) =>
         DecimalOrInteger(parsed, result)
    /\ (~is_alphanumeric(parsed) /\ is_packed(parsed) /\ ~packed_integer) =>
         result = DecimalType(total_digits(parsed), parsed.decimal_digits)

C10_NonBcdDigitIsError ==
    (dec_op = "decode_packed_decimal" /\ data # <<>> /\ ~DigitNibblesBcd(data))
        => IsError(decoded)

\* The statement text a line carries: what stands from column 8 on (the whole
\* line when it is shorter than 7 characters), before any inline comment.
StatementText(line) ==
    Strip(BeforeStar(IF Len(line) >= 7 THEN SubSeq(line, 8, Len(line)) ELSE line))

\* The line is no comment line and carries statement text.
IsContentLine(line) ==
    /\ ~(Len(line) >= 7 /\ line[7] = "*")
    /\ StatementText(line) # <<>>

\* The line is a content line whose text ends with a period.
EndsStatement(line) ==
    IsContentLine(line) /\ StatementText(line)[Len(StatementText(line))] = "."

\* The content lines of ls end with a terminated statement, and a line with
\* the continuation indicator only follows an unterminated line.
WholeStatements(ls) ==
    /\ ls # <<>>
    /\ EndsStatement(ls[Len(ls)])
    /\ \A i \in 1..Len(ls) :
         (Len(ls[i]) >= 7 /\ ls[i][7] = "-") => (i > 1 /\ ~EndsStatement(ls[i - 1]))

\* The content 05 A / PIC X(4). on two lines without continuation indicator.
TwoLineField ==
    << Margin(" ") \o <<"0", "5", " ", "A">>,
       Margin(" ") \o <<" ", "P", "I", "C", " ", "X", "(", "4", ")", ".">> >>

\* C11: _clean_content emits exactly one statement per period-terminated
\* statement of the source, the lines of a statement that spans several lines
\* being joined before _parse_line is applied; a field whose PIC clause stands
\* on the line after its level and name is parsed as one elementary field.
C11_OneStatementPerPeriod ==
    /\ ( /\ clean_op = "_parse_line"
         /\ \A i \in 1..Len(content) : IsContentLine(content[i])
         /\ WholeStatements(content) ) =>
         Len(lines) = Cardinality({i \in 1..Len(content) : EndsStatement(content[i])})
    /\ (clean_op = "_parse_line" /\ content = TwoLineField) =>
         /\ Len(line_fields) = 1
         /\ line_fields[1] # NoField
         /\ line_fields[1].name = <<"A">>
         /\ line_fields[1].pic_clause = <<"P", "I", "C", " ", "X", "(", "4", ")">>
         /\ ~line_fields[1].is_group

\* The index of the group field the stack entry top was pushed for: the last
\* group item of fs with its level and name.
RECURSIVE GroupIndex(_, _)
GroupIndex(fs, top) ==
    IF fs = <<>> THEN 0
    ELSE IF /\ fs[Len(fs)].is_group
            /\ fs[Len(fs)].name = top.name
            /\ fs[Len(fs)].level = top.level
         THEN Len(fs)
    ELSE GroupIndex(SubSeq(fs, 1, Len(fs) - 1), top)

\* The field f placed under the popped stack has the group on top of it as
\* parent, and its name is added to the children of that group field and of
\* no other field of before; after are the same fields one step later.
ParentAndChildren(before, after, stack, f) ==
    /\ f.parent = (IF stack = <<>> THEN None ELSE stack[Len(stack)].name)
    /\ \A i \in 1..Len(before) :
         after[i].children
           = IF stack # <<>> /\ i = GroupIndex(before, stack[Len(stack)])
             THEN Append(before[i].children, f.name)
             ELSE before[i].children

\* C12: every returned field has as parent the group item on top of the
\* level stack after the entries of level >= its level are popped (None when
\* the stack is empty), and its name is added to the children of exactly that
\* group field and of no other, also when fields share a name. Stated for
\* the field the last statement read adds.
C12_ParentAndChildren ==
    ( /\ stmts # <<>>
      /\ ~IsSkipped(stmts[Len(stmts)])
      /\ ~(ignore_fillers /\ stmts[Len(stmts)].name = "FILLER") ) =>
        ParentAndChildren(BeforeLast.fields, fields,
                          PopStack(BeforeLast.parent_stack, stmts[Len(stmts)].level),
                          fields[Len(fields)])

\* C13: hiding FILLER items does not change the physical record:
\* get_record_length of the result with ignore_fillers=True equals
\* get_record_length of the result with ignore_fillers=False.
C13_FillersCountInRecordLength ==
    get_record_length(fields)
      = get_record_length(parse_content(stmts, ~ignore_fillers).fields)

\* C14: a returned layout contains a field with REDEFINES X only if an
\* earlier field named X exists with the same level and the same parent;
\* otherwise the parse fails instead of returning a layout.
C14_RedefinesTargetExists ==
    \A i \in 1..Len(fields) :
        fields[i].redefines # None =>
            \E j \in 1..(i - 1) :
                /\ fields[j].name = fields[i].redefines
                /\ fields[j].level = fields[i].level
                /\ fields[j].parent = fields[i].parent

\* C15: every field of every returned layout has occurs >= 1: a statement
\* with OCCURS 0 is rejected.
C15_OccursPositive ==
    \A i \in 1..Len(fields) : fields[i].occurs >= 1

\* ------------------------------------------------------------ DDL parser
\* The column items of the statement given, in declaration order.
DeclaredColumns == SelectSeq(ddl_items, LAMBDA it : it.kind = "column")

\* The names the PRIMARY KEY item of the statement lists, in order.
DeclaredKey ==
    IF \E i \in 1..Len(ddl_items) : ddl_items[i].kind = "pk"
    THEN ddl_items[CHOOSE i \in 1..Len(ddl_items) : ddl_items[i].kind = "pk"].names
    ELSE <<>>

\* The names of the columns of the table returned, in order.
ColumnNames == [i \in 1..Len(table.columns) |-> table.columns[i].name]

\* C16: for a CREATE TABLE made of column items and a PRIMARY KEY item, each
\* column item yields one column, in declaration order, which is not
\* nullable exactly when the item carries NOT NULL and is a primary key
\* column exactly when the PRIMARY KEY item lists its name, and primary_key
\* holds the listed names in order.
C16_ColumnsAsDeclared ==
    (ddl_op = "parse_content"
     /\ \A i \in 1..Len(ddl_items) : ddl_items[i].kind \in {"column", "pk"})
    => /\ Len(table.columns) = Len(DeclaredColumns)
       /\ \A i \in 1..Len(table.columns) :
            /\ table.columns[i].name = DeclaredColumns[i].name
            /\ table.columns[i].nullable = ~DeclaredColumns[i].not_null
            /\ table.columns[i].is_primary_key =
                 (\E k \in 1..Len(DeclaredKey) : DeclaredKey[k] = DeclaredColumns[i].name)
       /\ table.primary_key = DeclaredKey

\* C17: every FOREIGN KEY item, with or without a constraint name, is
\* recorded in foreign_keys under its column with the table and column it
\* references, and the columns of the table returned are exactly the column
\* items of the statement.
C17_ForeignKeysAreNotColumns ==
    ddl_op = "parse_content"
    => /\ ColumnNames = [i \in 1..Len(DeclaredColumns) |-> DeclaredColumns[i].name]
       /\ \A i \in 1..Len(ddl_items) :
            ddl_items[i].kind = "fk"
            => /\ DictHas(table.foreign_keys, JoinNames(ddl_items[i].names))
               /\ DictGet(table.foreign_keys, JoinNames(ddl_items[i].names))
                    = ddl_items[i].ref_table \o <<".">> \o JoinNames(ddl_items[i].ref_names)

\* ----------------------------------------------------- DB2 type converter
\* The logical type the mapping table states for a spelling.
TableLogicalType(sp) ==
    IF sp.name = <<"S", "M", "A", "L", "L", "I", "N", "T">> THEN SparkType("Short")
    ELSE IF sp.name \in {<<"I", "N", "T", "E", "G", "E", "R">>, <<"I", "N",
        "T">>} THEN SparkType("Integer")
    ELSE IF sp.name = <<"B", "I", "G", "I", "N", "T">> THEN SparkType("Long")
    ELSE IF sp.name \in {<<"D", "E", "C", "I", "M", "A", "L">>, <<"N", "U", "M", "E", "R",
        "I", "C">>, <<"D", "E", "C">>}
         THEN DecimalType(sp.params[1], IF Len(sp.params) = 2 THEN sp.params[2] ELSE 0)
    ELSE IF sp.name = <<"D", "E", "C", "F", "L", "O", "A", "T">> THEN DecimalType(sp.params[1], 0)
    ELSE IF sp.name = <<"R", "E", "A", "L">> THEN SparkType("Float")
    ELSE IF sp.name \in {<<"F", "L", "O", "A", "T">>, <<"D", "O", "U", "B", "L", "E">>, <<"D",
        "O", "U", "B", "L", "E", " ", "P", "R", "E", "C", "I", "S", "I", "O",
        "N">>} THEN SparkType("Double")
    ELSE IF sp.name \in {<<"C", "H", "A", "R">>, <<"V", "A", "R", "C", "H", "A", "R">>, <<"C",
        "L", "O", "B">>, <<"G", "R", "A", "P", "H", "I", "C">>}
         THEN IF sp.bit THEN SparkType("Binary") ELSE SparkType("String")
    ELSE IF sp.name \in {<<"B", "I", "N", "A", "R", "Y">>, <<"V", "A", "R", "B", "I", "N",
        "A", "R", "Y">>, <<"B", "L", "O", "B">>} THEN SparkType("Binary")
    ELSE IF sp.name = <<"D", "A", "T", "E">> THEN SparkType("Date")
    ELSE IF sp.name = <<"T", "I", "M", "E", "S", "T", "A", "M", "P">> THEN SparkType("Timestamp")
    ELSE IF sp.name = <<"B", "O", "O", "L", "E", "A", "N">> THEN SparkType("Boolean")
    ELSE SparkType("String")

\* C18: convert maps every spelling of the mapping table to the logical type
\* the table states for it: the integers, DECIMAL/NUMERIC/DEC(p[,s]) and
\* DECFLOAT(p) to Decimal, REAL, FLOAT and DOUBLE, the character types to
\* String and to Binary with FOR BIT DATA, BINARY/VARBINARY/BLOB to Binary,
\* DATE, TIMESTAMP, TIME, BOOLEAN, XML and ROWID.
C18_MappingTable ==
    db2_op = "convert" => db2_result = TableLogicalType(sql_spelling)


\* ------------------------------------------------------------ DCLGEN parser
\* The host variable lines that declare a variable: not the record (level
\* 01) and not the parts of a VARCHAR (level 49).
KeptHosts == SelectSeq(dcl_hosts, LAMBDA h : h.level \notin {1, 49})

RECURSIVE HyphensReplaced(_)
HyphensReplaced(s) ==
    IF s = <<>> THEN <<>>
    ELSE <<IF Head(s) = "-" THEN "_" ELSE Head(s)>> \o HyphensReplaced(Tail(s))

\* The canonical form of a host variable name: one leading DCL- stripped,
\* every "-" replaced by "_".
Canonical(name) ==
    IF Len(name) >= 4 /\ SubSeq(name, 1, 4) = <<"D", "C", "L", "-">>
    THEN HyphensReplaced(SubSeq(name, 5, Len(name)))
    ELSE HyphensReplaced(name)

\* C19: in the result of parse_content the host variables are those of the
\* file and the columns those of its DECLARE block, and a host variable v is
\* paired with column c (v.sql_column = c.name) if and only if c.name is the
\* canonical form of v.name; a host variable without such a column has no
\* sql_column.  Host variable 10 DCL-CUST-ID PIC S9(9) COMP is paired with
\* column CUST_ID and its picture analyses to a signed binary of 4 bytes.
C19_PairedByCanonicalName ==
    dcl_op = "parse_content"
    => /\ [i \in 1..Len(dcl_result.host_variables) |-> dcl_result.host_variables[i].name]
            = [i \in 1..Len(KeptHosts) |-> KeptHosts[i].name]
       /\ [k \in 1..Len(dcl_result.sql_columns) |-> dcl_result.sql_columns[k].name]
            = [k \in 1..Len(dcl_source.columns) |-> dcl_source.columns[k].name]
       /\ \A i \in 1..Len(dcl_result.host_variables) :
            /\ \A k \in 1..Len(dcl_result.sql_columns) :
                 dcl_result.host_variables[i].sql_column = dcl_result.sql_columns[k].name
                 <=> dcl_result.sql_columns[k].name
                       = Canonical(dcl_result.host_variables[i].name)
            /\ (\A k \in 1..Len(dcl_result.sql_columns) :
                  dcl_result.sql_columns[k].name
                    # Canonical(dcl_result.host_variables[i].name))
               => dcl_result.host_variables[i].sql_column = <<>>
            /\ (/\ KeptHosts[i] = CustIdHost
                /\ \E k \in 1..Len(dcl_source.columns) : dcl_source.columns[k] = CustId)
               => /\ dcl_result.host_variables[i].sql_column = <<"C", "U", "S", "T", "_", "I", "D">>
                  /\ parse_pic_clause(dcl_result.host_variables[i].pic_clause).is_signed
                  /\ is_binary(parse_pic_clause(dcl_result.host_variables[i].pic_clause))
                  /\ get_storage_bytes(dcl_result.host_variables[i].pic_clause)
                       = [value |-> 4]

\* A file was parsed in which DCL-CUST-ID is paired with column CUST_ID while
\* another host variable has no column.
C19_Witness ==
    /\ dcl_op = "parse_content"
    /\ \E i, j \in 1..Len(dcl_result.host_variables) :
         /\ dcl_result.host_variables[i].name = <<"D", "C", "L", "-", "C", "U", "S", "T", "-",
             "I", "D">>
         /\ dcl_result.host_variables[i].sql_column = <<"C", "U", "S", "T", "_", "I", "D">>
         /\ dcl_result.host_variables[j].sql_column = <<>>

\* C20: the pic_clause recorded for a host variable line carries exactly the
\* usage the line declares, whether the usage follows the picture directly
\* or follows the USAGE keyword: analysed by parse_pic_clause it has that
\* usage, so a line declared COMP-3 is packed and not binary.
C20_UsageCarried ==
    dcl_op = "parse_content"
    => /\ Len(dcl_result.host_variables) = Len(KeptHosts)
       /\ \A i \in 1..Len(KeptHosts) :
            KeptHosts[i].usage # None
            => /\ parse_pic_clause(dcl_result.host_variables[i].pic_clause).usage
                    = KeptHosts[i].usage
               /\ KeptHosts[i].usage = "COMP-3"
                  => /\ is_packed(parse_pic_clause(dcl_result.host_variables[i].pic_clause))
                     /\ ~is_binary(parse_pic_clause(dcl_result.host_variables[i].pic_clause))

\* C21: parse_content fails fast on a text without an EXEC SQL DECLARE ...
\* TABLE ( ... ) END-EXEC block: it reports an error and returns no
\* DCLGenResult, so a result that is returned has a table_name.
C21_FailsFast ==
    dcl_op # "none"
    => IF DECLARE_PATTERN(dcl_content).matched
       THEN dcl_op = "parse_content" /\ dcl_result.table_name # <<>>
       ELSE dcl_op # "parse_content" /\ dcl_result = NoResult

\* -------------------------------------------------------- CCSID resolution
\* The code page of each recognized CCSID.
RecognizedCodePages ==
    << Entry(37, "cp037"), Entry(273, "cp273"), Entry(284, "cp284"), Entry(285, "cp285"),
       Entry(297, "cp297"), Entry(500, "cp500"), Entry(930, "cp930"), Entry(935, "cp935"),
       Entry(937, "cp937"), Entry(1047, "cp1047"), Entry(1140, "cp1140"),
       Entry(1200, "utf-16"), Entry(1208, "utf-8") >>

\* The code page a CCSID resolves to: its own when it is recognized, that of
\* CCSID 37 when it is not or when none is given.
CodePage(ccsid) ==
    IF \E i \in 1..Len(RecognizedCodePages) : RecognizedCodePages[i].key = ccsid
    THEN RecognizedCodePages[CHOOSE i \in 1..Len(RecognizedCodePages) :
                                RecognizedCodePages[i].key = ccsid].value
    ELSE "cp037"

\* C22: the EBCDICConverter built for a CCSID and get_codec of a
\* DB2TypeConverter with the default default_ccsid both resolve each
\* recognized CCSID to its own code page, none given and every other CCSID
\* to the code page of CCSID 37, and they agree with each other.
C22_CcsidResolution ==
    /\ eb_codec # None => eb_codec = CodePage(ccsid_given)
    /\ (db2_codec # None /\ default_ccsid = 37) => db2_codec = CodePage(ccsid_given)
    /\ (eb_codec # None /\ db2_codec # None /\ default_ccsid = 37) => eb_codec = db2_codec

\* ------------------------------------------------------------ BaseMigrator
\* The migrate call made last has ended.
MigrateEnded == mig_pc \in {"returned", "escaped"}

\* A step of the call made last did outcome o.
SomeStepDid(o) == \E i \in 1..Len(mig_trace) : mig_trace[i].outcome = o

\* Every step of migrate ran and returned in the call made last.
AllStepsCompleted ==
    /\ Len(mig_trace) = Len(MigrateSteps)
    /\ \A i \in 1..Len(mig_trace) : mig_trace[i].outcome \in {"True", "return"}

\* The final states of a migration.
FinalStatuses == {"SUCCESS", "FAILED", "SKIPPED"}

\* C23 as stated: whatever the steps do, return or raise, no exception
\* escapes migrate, and when migrate has ended the status is SUCCESS, FAILED
\* or SKIPPED with end_time set: SKIPPED exactly when validate_source
\* returned False, FAILED exactly when a step raised, SUCCESS exactly when
\* all steps completed.
C23_AlwaysFinalState ==
    MigrateEnded
    => /\ mig_pc = "returned"
       /\ mig_result.status \in FinalStatuses
       /\ mig_result.end_time = mig_clock
       /\ mig_result.status = "SKIPPED" <=> SomeStepDid("False")
       /\ mig_result.status = "FAILED"
            <=> (SomeStepDid("Exception") \/ SomeStepDid("BaseException"))
       /\ mig_result.status = "SUCCESS" <=> AllStepsCompleted

\* C23 as the code has it: an exception escapes migrate exactly when a step
\* raised one that is no Exception, and end_time is set on every way out;
\* when migrate returns, the status is SUCCESS, FAILED or SKIPPED: SKIPPED
\* exactly when validate_source returned False, FAILED exactly when a step
\* raised an Exception, SUCCESS exactly when all steps completed.
C23_FinalStateOnReturn ==
    MigrateEnded
    => /\ mig_result.end_time = mig_clock
       /\ mig_result.end_time > mig_result.start_time
       /\ mig_pc = "escaped" <=> SomeStepDid("BaseException")
       /\ mig_pc = "returned"
          => /\ mig_result.status \in FinalStatuses
             /\ mig_result.status = "SKIPPED" <=> SomeStepDid("False")
             /\ mig_result.status = "FAILED" <=> SomeStepDid("Exception")
             /\ mig_result.status = "SUCCESS" <=> AllStepsCompleted

\* A second migrate call returned FAILED because count raised.
C23_Witness ==
    /\ mig_pc = "returned"
    /\ mig_calls = 2
    /\ mig_result.status = "FAILED"
    /\ mig_trace[Len(mig_trace)] = [step |-> "count", outcome |-> "Exception"]

\* C26: within one migrate call the steps run in the order validate_source,
\* read_source, transform, count, write_output, each at most once and each
\* only after all earlier steps returned without raising; nothing is called
\* after validate_source returned False, and write_output is not called
\* after a failed read, transform or count.
C26_StepsInOrder ==
    /\ Len(mig_trace) <= Len(MigrateSteps)
    /\ \A i \in 1..Len(mig_trace) :
         /\ mig_trace[i].step = MigrateSteps[i]
         /\ i < Len(mig_trace) => mig_trace[i].outcome \in {"True", "return"}
    /\ mig_pc \notin {"none", "idle", "returned", "escaped"}
       => /\ Len(mig_trace) < Len(MigrateSteps)
          /\ mig_pc = MigrateSteps[Len(mig_trace) + 1]
          /\ \A i \in 1..Len(mig_trace) : mig_trace[i].outcome \in {"True", "return"}

\* A call ran all five steps, and one ended at a step that raised before
\* write_output.
C26_Witness ==
    /\ MigrateEnded
    /\ \/ Len(mig_trace) = Len(MigrateSteps)
       \/ /\ Len(mig_trace) \in 2..4
          /\ mig_trace[Len(mig_trace)].outcome = "Exception"

\* C30: after any sequence of migrate calls the result describes the last
\* call only: with status SUCCESS the error is None, with status FAILED or
\* SKIPPED the output_path is None.
C30_ResultOfLastCall ==
    mig_pc = "returned"
    => /\ mig_result.status = "SUCCESS" => mig_result.error = None
       /\ mig_result.status \in {"FAILED", "SKIPPED"} => mig_result.output_path = None

\* ------------------------------------------------------------------ C24
\* C24: run_vsam(data_file, copybook, output_name) returns, for every
\* output_name and every configuration, one DatasetResult whose name is
\* output_name and which is the result of converting the given data_file
\* with the given copybook; it does not raise and does not return the
\* result of a pre-configured dataset.  (A run_vsam call that Spark or the
\* manifest brought down is not counted.)
RunVsamEnded ==
    /\ mm_vsam # NoResult
    /\ mm_pc \in {"returned", "raised"}
    /\ mm_error \in {None, "IndexError"}

C24_RunVsamResult ==
    RunVsamEnded =>
        /\ mm_pc = "returned"
        /\ mm_vsam_result.name = mm_vsam.output_name
        /\ mm_todo[1].data_file = basename(mm_vsam.data_file)
        /\ mm_todo[1].copybook = basename(mm_vsam.copybook)

\* ------------------------------------------------------------------ C25
\* C25: a SchemaValidator built with allow_type_promotion=False reports a
\* pair of types as compatible only if the two are equal: every matching
\* field whose source and target types differ, a DecimalType widened to a
\* larger DecimalType included, is a type mismatch, and compare_schemas
\* returns is_compatible = False.
SvChanged ==
    {n \in FieldNamesOf(sv_source) \cap FieldNamesOf(sv_target) :
        FieldDict(sv_source)[n].dataType # FieldDict(sv_target)[n].dataType}

C25_NoPromotion ==
    (sv_op = "compare_schemas" /\ ~sv_flags.allow_type_promotion) =>
        /\ \A n \in SvChanged :
              /\ ~check_type_compatibility(sv_flags, FieldDict(sv_source)[n].dataType,
                                           FieldDict(sv_target)[n].dataType).is_compatible
              /\ \E m \in sv_result.type_mismatches : m.field = n
        /\ SvChanged # {} => ~sv_result.is_compatible

\* ------------------------------------------------------------------ C27
\* C27: when run returns, the summary accounts for every processed dataset
\* exactly once: the results are those of the enabled datasets that pass
\* the name filter (a datasets argument that is None or empty lets every
\* name pass), in configuration order; successful + failed + skipped =
\* total_datasets = len(results); total_records is the sum of record_count
\* over the results with status SUCCESS.  successful + failed + skipped =
\* len(results) also holds after each loop iteration.
PassesFilter(name) ==
    \/ ~mm_datasets.given
    \/ mm_datasets.names = <<>>
    \/ \E k \in 1..Len(mm_datasets.names) : mm_datasets.names[k] = name

SelectedDataset(d) == d.enabled /\ PassesFilter(d.name)

RECURSIVE SuccessRecords(_)
SuccessRecords(results) ==
    IF results = <<>> THEN 0
    ELSE (IF results[1].status = "SUCCESS" THEN results[1].record_count ELSE 0)
         + SuccessRecords(Tail(results))

C27_SummaryAccounts ==
    /\ mm_pc \in {"loop", "returned", "raised"} =>
          mm_summary.successful + mm_summary.failed + mm_summary.skipped
              = Len(mm_summary.results)
    /\ mm_pc = "returned" =>
          LET selected == SelectSeq(mm_config.datasets, SelectedDataset)
          IN  /\ mm_summary.total_datasets = Len(mm_summary.results)
              /\ Len(mm_summary.results) = Len(selected)
              /\ \A k \in 1..Len(selected) : mm_summary.results[k].name = selected[k].name
              /\ mm_summary.total_records = SuccessRecords(mm_summary.results)

\* run has returned two results in configuration order, which is not the
\* order of the names asked for: one SUCCESS with records and one SKIPPED.
C27_Witness ==
    /\ mm_pc = "returned"
    /\ mm_datasets = Given(<<"ORDERS", "CUSTOMER">>)
    /\ Len(mm_summary.results) = 2
    /\ mm_summary.results[1].name = "CUSTOMER"
    /\ mm_summary.successful = 1
    /\ mm_summary.skipped = 1
    /\ mm_summary.total_records > 0

\* ------------------------------------------------------------------ C28
\* C28: once run has initialised the Spark session, every exit of run, by
\* return or by an exception raised while a dataset is processed or the
\* manifest is saved, leaves session_manager.is_active False and _spark
\* None; stop() on an inactive manager changes nothing; a get_or_create on
\* an inactive manager builds a session that is none of the earlier ones.
RunExits == mm_pc = "loop" /\ mm_pc' \in {"returned", "raised"}

C28_SessionStopped ==
    [][/\ RunExits => ~is_active(session_manager') /\ mm_spark' = NoInt
       /\ (ManagerStop /\ ~is_active(session_manager)) => session_manager' = session_manager
       /\ (ManagerGetOrCreate /\ ~is_active(session_manager)) =>
             /\ is_active(session_manager')
             /\ session_manager'.session > mm_built]_vars

\* A dataset's processing raised, run stopped the session on its way out,
\* and a get_or_create since then built the second session.
C28_Witness ==
    /\ mm_pc = "raised"
    /\ mm_error = "_process_dataset"
    /\ mm_spark = NoInt
    /\ session_manager = [session |-> 2]

\* ------------------------------------------------------------------ C29
\* C29: a dataset whose processing ends SKIPPED keeps its output
\* directory: clean_output is called on a dataset's output path only if
\* its processing ends in SUCCESS or FAILED, for VSAM and for DB2 datasets,
\* DB2 mock mode with clean_output enabled included.
C29_SkippedKeepsOutput ==
    mm_pc \in {"loop", "returned", "raised"} =>
        \A k \in 1..Len(mm_summary.results) :
           mm_summary.results[k].status = "SKIPPED" =>
              get_output_path(mm_config, mm_summary.results[k].name) \notin mm_cleaned
====
